---- MODULE Spec2Model ----
(***************************************************************************)
(* Session orchestrator of the relay: the single-flight message queue,     *)
(* the stop/abort commands and the approval gate of the Telegram relay     *)
(* (src/src/relay-core.ts) and the approval prompt of the terminal relay   *)
(* (src/src/terminal-relay.ts); the turn segmenter and the flush scheduler *)
(* of the stream loop of callAgent in both relays; the ContextTracker;     *)
(* the session id, the middleware (authorization, rate limiter) and        *)
(* sendResponse of the Telegram relay.                                     *)
(*                                                                         *)
(* One behaviour is one execution of one of the two programs; the variable *)
(* channel says which.  Every action is one synchronous block of the       *)
(* JavaScript event loop: the code between two awaits of a handler, or a   *)
(* whole callback.  callAgent's finally block and the finally block of     *)
(* enqueue that awaits it directly are one block, since only a microtask   *)
(* hop separates them; a handler that wraps callAgent (photo, document,    *)
(* /terminal) awaits again in between and is modelled with pc "tail".      *)
(* Which of the two shapes a handler has shows only when callAgent         *)
(* returns, so the shape is chosen there.                                  *)
(***************************************************************************)
EXTENDS Integers, Sequences, FiniteSets, TLC

\* ---------------------------------------------------------------- bounds
MaxReq == 3      \* requests received by the relay
MaxRuns == 1     \* runs of the approval gate specification
MaxCalls == 2    \* tool invocations seen by canUseTool
MaxEvents == 2   \* assistant messages of the observed run
WordLen == 210   \* length of the word the event texts are built from
MaxTokens == 210000  \* addTokens is not followed beyond this count
MaxSessionRuns == 2  \* runs of the session specification
MaxMsgs == 4     \* backend messages taken by the stream loops of the session specification
MaxTime == 90001 \* Date.now() is not followed beyond this time
MaxPrivate == 1  \* "This bot is private." replies followed
MaxLines == 4  \* lines of the transcript file
MaxClock == 45  \* minutes the reminder job is followed
MaxDelivered == 2  \* deliveries of one reminder that are counted

\* ----------------------------------------------------- program constants
ParagraphMin == 80     \* unsent.length > 80
LargeMin == 400        \* unsent.length > 400
StaleMin == 40         \* unsent.length > 40
StaleMs == 3000        \* now - lastFlush > 3000
CONTEXT_WINDOW == 200000
SYSTEM_PROMPT_ESTIMATE == 18000
TOOL_OVERHEAD_PER_TURN == 500
RATE_LIMIT_WINDOW == 60000
RATE_LIMIT_MAX == 10
MAX_LENGTH == 4000

\* charsToTokens: Math.ceil(chars / 3.5)
charsToTokens(chars) == (2 * chars + 6) \div 7

Requests == 1..MaxReq
Calls == 1..MaxCalls
\* the values Math.random().toString(36).substring(2, 8) is drawn from
Ids == {"a", "b"}
NoId == "none"
\* the session ids the backend reports
SessionIds == {"s1", "s2"}
NoSession == "null"

Channels == {"telegram", "terminal"}
ToolNames == {"Bash", "Write", "Edit", "Read"}
HandlerKinds == {"plain", "wrapped"}

\* what parseLine makes of a transcript line: a user_text, an assistant_text with a text
\* of one or two characters, or null
LineKinds == {"user", "assistant1", "assistant2", "other"}
\* parsed.text.length of an assistant_text
textLength(kind) == IF kind = "assistant1" THEN 1 ELSE IF kind = "assistant2" THEN 2 ELSE 0

\* the events of the calendar with their start times in minutes
EventStart == [standup |-> 30, review |-> 42]
REMINDER_WINDOWS ==
    <<[label |-> "30min", threshold |-> 30, tolerance |-> 5],
      [label |-> "10min", threshold |-> 10, tolerance |-> 5]>>
\* how far ahead getUpcomingEventsStructured looks
LookAhead == 35
\* the pairs the two for loops of the reminder job pass, in their order
Pairs == <<<<"standup", 1>>, <<"standup", 2>>, <<"review", 1>>, <<"review", 2>>>>
\* stateKey: title, start time and window label; the start time follows from the title
stateKey(pair) == <<pair[1], REMINDER_WINDOWS[pair[2]].label>>
ReminderKeys == {stateKey(Pairs[i]) : i \in 1..Len(Pairs)}

VARIABLES
    channel,           \* which relay program runs
    arrived,           \* number of requests received so far (requests are numbered in arrival order)
    pc,                \* request -> position of its handler
    processing,        \* relay-core.ts:760
    messageQueue,      \* relay-core.ts:759
    abortController,   \* relay-core.ts:752, 0 = null, r = the controller created by run r
    currentCtx,        \* relay-core.ts:756, 0 = null
    aborted,           \* requests whose AbortController has been aborted
    execs,             \* request -> number of times its handler was started
    notified,          \* request -> number of "I'll get to this next" replies
    failed,            \* request -> its handler threw
    nCalls,            \* number of tool invocations seen by canUseTool
    tcOwner,           \* call -> run that issued it
    tcFlagged,         \* call -> the risk classifier flags the invocation
    tcState,           \* call -> "none" | "reply" | "pending" | "allow" | "deny" | "threw"
    tcId,              \* call -> approval id (NoId = none)
    tcTimer,           \* call -> its setTimeout timer is armed
    tcResolves,        \* call -> number of times resolve() of its promise was called
    tcVia,             \* call -> "none" | "button" | "timeout" | "answer" | "noctx"
    pendingApprovals,  \* relay-core.ts:812, id -> call (0 = no entry)
    lastAnswer,        \* last answerCallbackQuery text
    \* locals of callAgent of the observed run (the run of request 1)
    currentTurnText,   \* relay-core.ts:887, terminal-relay.ts:228; a sequence of characters
    currentTurnSent,   \* relay-core.ts:888; currentTurnPrinted of terminal-relay.ts:229
    currentMsgUuid,    \* terminal-relay.ts:230
    allResponses,      \* relay-core.ts:886, terminal-relay.ts:227
    sinceFlush,        \* Date.now() - lastFlush (relay-core.ts:889), in ms
    gotResult,         \* the result message of the run has been handled
    nEvents,           \* number of assistant messages handled
    prevUuid,          \* uuid of the previous assistant message with text ("" = none)
    emitKind,          \* what the last message made the relay emit: "none" | "triggered" | "final" | "result" | "print"
    lastChunk,         \* the text emitted then
    emitFrom,          \* offset in the turn text where that emission starts
    hwm,               \* end of the emitted part of the current turn
    waitingAtEvent,    \* an approval was unresolved when the last assistant message was handled
    \* the ContextTracker instance, relay-core.ts:763
    tokens,            \* relay-core.ts:185
    warnings,          \* relay-core.ts:186
    returned,          \* warning -> number of times checkWarnings returned it since the last reset
    lastWarning,       \* what the last checkWarnings call returned: "null" | "pct10" | "pct5"
    warnedBefore,      \* warning -> checkWarnings returned it before the last reset
    \* the session of the Telegram relay
    sessionId,         \* relay-core.ts:751, NoSession = null
    nMsgs,             \* number of backend messages the stream loops have taken
    skipped,           \* the last of them met none of the conditions of the loop body
    \* the bot.use middleware, relay-core.ts:1175
    rateLimitTimestamps, \* relay-core.ts:767
    now,               \* Date.now(), in ms since the relay started
    admitted,          \* the times at which isRateLimited() returned false, oldest first
    limited,           \* what the last isRateLimited() call returned
    privateReplies,    \* number of "This bot is private." replies
    \* sendResponse, relay-core.ts:1125
    response,          \* the text sendResponse was called with
    remainingToSend,   \* remaining of relay-core.ts:1134
    offset,            \* where remaining starts in response
    pieces,            \* the texts handed to ctx.reply, in order
    pieceAt,           \* where each of them starts in response
    \* the transcript sync job, relay-core.ts:1808
    transcript,        \* the lines of the transcript file, by kind
    modifiedSinceSync, \* the mtime of the file is later than state[fileKey].lastTimestamp
    syncState,         \* state[fileKey].lastLine in sync-state.json, 0 when there is no entry
    syncPc,            \* "idle" | "loop": a sync run is in the for loop of syncFile
    lines,             \* lines of relay-core.ts:1815, the content the run has read
    lineIdx,               \* i of relay-core.ts:1841
    lastAssistantText, \* the length of lastAssistantText, relay-core.ts:1826
    synced,            \* synced of relay-core.ts:1822
    timesProcessed,    \* line -> number of times the loop body has taken it
    \* the event reminder job, examples/event-reminder.ts
    clock,             \* the time in minutes
    storedReminders,   \* eventReminders in heartbeat-state.json
    remPc,             \* "idle" | "loop": a reminder run is in its loops
    remNow,            \* now of event-reminder.ts:86
    eventReminders,    \* state.eventReminders of the run
    remIdx,            \* number of (event, window) pairs the loops have passed
    delivered,         \* key -> number of sendTelegram calls for it that returned true
    checkinPc,         \* where the check-in job is: "idle" or "loaded"
    checkinReminders   \* state.eventReminders of the check-in run

queueVars == <<arrived, pc, processing, messageQueue, abortController, currentCtx,
               aborted, execs, notified, failed>>
callVars == <<nCalls, tcOwner, tcFlagged>>
apprVars == <<tcState, tcId, tcTimer, tcResolves, tcVia, pendingApprovals>>
turnVars == <<currentTurnText, currentTurnSent, currentMsgUuid, allResponses, sinceFlush,
              gotResult, nEvents, prevUuid, emitKind, lastChunk, emitFrom, hwm,
              waitingAtEvent>>
trackVars == <<tokens, warnings, returned, lastWarning, warnedBefore>>
sessVars == <<sessionId, nMsgs, skipped>>
useVars == <<rateLimitTimestamps, now, admitted, limited, privateReplies>>
sendVars == <<response, remainingToSend, offset, pieces, pieceAt>>
syncVars == <<transcript, modifiedSinceSync, syncState, syncPc, lines, lineIdx, lastAssistantText,
              synced, timesProcessed>>
remVars == <<clock, storedReminders, remPc, remNow, eventReminders, remIdx, delivered,
            checkinPc, checkinReminders>>
jobVars == <<syncVars, remVars>>
vars == <<channel, queueVars, callVars, apprVars, lastAnswer, turnVars, trackVars,
          sessVars, useVars, sendVars, jobVars>>

Init ==
    /\ channel \in Channels
    /\ arrived = 0
    /\ pc = [r \in Requests |-> "new"]
    /\ processing = FALSE
    /\ messageQueue = <<>>
    /\ abortController = 0
    /\ currentCtx = 0
    /\ aborted = {}
    /\ execs = [r \in Requests |-> 0]
    /\ notified = [r \in Requests |-> 0]
    /\ failed = [r \in Requests |-> FALSE]
    /\ nCalls = 0
    /\ tcOwner = [t \in Calls |-> 0]
    /\ tcFlagged = [t \in Calls |-> FALSE]
    /\ tcState = [t \in Calls |-> "none"]
    /\ tcId = [t \in Calls |-> NoId]
    /\ tcTimer = [t \in Calls |-> FALSE]
    /\ tcResolves = [t \in Calls |-> 0]
    /\ tcVia = [t \in Calls |-> "none"]
    /\ pendingApprovals = [i \in Ids |-> 0]
    /\ lastAnswer = "none"
    /\ currentTurnText = <<>>
    /\ currentTurnSent = 0
    /\ currentMsgUuid = ""
    /\ allResponses = <<>>
    /\ sinceFlush = 0
    /\ gotResult = FALSE
    /\ nEvents = 0
    /\ prevUuid = ""
    /\ emitKind = "none"
    /\ lastChunk = <<>>
    /\ emitFrom = 0
    /\ hwm = 0
    /\ waitingAtEvent = FALSE
    /\ tokens = SYSTEM_PROMPT_ESTIMATE
    /\ warnings = [pct10 |-> FALSE, pct5 |-> FALSE]
    /\ returned = [pct10 |-> 0, pct5 |-> 0]
    /\ lastWarning = "null"
    /\ warnedBefore = [pct10 |-> FALSE, pct5 |-> FALSE]
    /\ sessionId = NoSession
    /\ nMsgs = 0
    /\ skipped = FALSE
    /\ rateLimitTimestamps = <<>>
    /\ now = 0
    /\ admitted = <<>>
    /\ limited = FALSE
    /\ privateReplies = 0
    /\ response = <<>>
    /\ remainingToSend = <<>>
    /\ offset = 0
    /\ pieces = <<>>
    /\ pieceAt = <<>>
    /\ transcript = <<>>
    /\ modifiedSinceSync = FALSE
    /\ syncState = 0
    /\ syncPc = "idle"
    /\ lines = <<>>
    /\ lineIdx = 0
    /\ lastAssistantText = 0
    /\ synced = 0
    /\ timesProcessed = [i \in 1..MaxLines |-> 0]
    /\ clock = 0
    /\ storedReminders = {}
    /\ remPc = "idle"
    /\ remNow = 0
    /\ eventReminders = {}
    /\ remIdx = 0
    /\ delivered = [key \in ReminderKeys |-> 0]
    /\ checkinPc = "idle"
    /\ checkinReminders = {}

\* A handler is executing from the moment enqueue calls it until it returns or throws.
Executing(r) == pc[r] \in {"pre", "stream", "catch", "tail"}

\* ------------------------------------------------------------ the queue

\* Drain with the queue forgotten: the finally block only clears the busy flag
DrainForgetsQueue(r, ac) ==
    /\ processing' = FALSE
    /\ abortController' = ac
    /\ pc' = [pc EXCEPT ![r] = "done"]
    /\ UNCHANGED <<messageQueue, currentCtx, execs>>

\* enqueue's finally block, run when the handler of r has returned or thrown;
\* ac is the value of abortController at that moment.
Drain(r, ac) ==
    IF messageQueue = <<>>
    THEN /\ processing' = FALSE
         /\ messageQueue' = messageQueue
         /\ abortController' = ac
         /\ currentCtx' = currentCtx
         /\ pc' = [pc EXCEPT ![r] = "done"]
         /\ execs' = execs
    ELSE LET next == Head(messageQueue) IN
         \* enqueue(next.ctx, next.handler): processing is false here, so the handler starts
         /\ processing' = TRUE
         /\ messageQueue' = Tail(messageQueue)
         /\ abortController' = next
         /\ currentCtx' = next
         /\ pc' = [pc EXCEPT ![r] = "done", ![next] = "pre"]
         /\ execs' = [execs EXCEPT ![next] = @ + 1]

\* enqueue(ctx, handler) called by an update handler for a new request
Enqueue(r) ==
    /\ channel = "telegram"
    /\ r = arrived + 1
    /\ r \in Requests
    /\ arrived' = r
    /\ IF processing
       THEN /\ messageQueue' = Append(messageQueue, r)
            /\ notified' = [notified EXCEPT ![r] = @ + 1]
            /\ pc' = [pc EXCEPT ![r] = "queued"]
            /\ UNCHANGED <<processing, abortController, currentCtx, execs>>
       ELSE /\ processing' = TRUE
            /\ pc' = [pc EXCEPT ![r] = "pre"]
            /\ currentCtx' = r
            /\ abortController' = r
            /\ execs' = [execs EXCEPT ![r] = @ + 1]
            /\ UNCHANGED <<messageQueue, notified>>
    /\ UNCHANGED <<channel, jobVars, sessVars, useVars, sendVars, turnVars, trackVars, aborted, failed, callVars, apprVars, lastAnswer>>

\* readline "line" event of the terminal relay: callAgent(input) is called directly
TermLine(r) ==
    /\ channel = "terminal"
    /\ r = arrived + 1
    /\ r \in Requests
    \* while rl.question is waiting, the next line answers the question instead
    /\ \A t \in Calls : tcState[t] # "asking"
    /\ arrived' = r
    /\ pc' = [pc EXCEPT ![r] = "pre"]
    /\ abortController' = r
    /\ execs' = [execs EXCEPT ![r] = @ + 1]
    /\ UNCHANGED <<channel, jobVars, sessVars, useVars, sendVars, turnVars, trackVars, processing, messageQueue, currentCtx, aborted, notified,
                   failed, callVars, apprVars, lastAnswer>>

\* userMessage.length of the requests
UserMessageChars == {35}

\* callAgent up to the try block (saveMessage, appendSessionLog, the estimate of the
\* user message added to the tracker, typing indicator)
PreDone(r) ==
    /\ pc[r] = "pre"
    /\ pc' = [pc EXCEPT ![r] = "stream"]
    /\ \E chars \in UserMessageChars : tokens' = tokens + charsToTokens(chars)
    /\ UNCHANGED <<channel, jobVars, sessVars, useVars, sendVars, turnVars, warnings, returned, lastWarning,
                   warnedBefore, arrived, processing, messageQueue, abortController, currentCtx,
                   aborted, execs, notified, failed, callVars, apprVars, lastAnswer>>

\* PreThrow without the finally block of enqueue: the throw leaves the queue as it is
PreThrowSkipsFinally(r) ==
    /\ channel = "telegram"
    /\ pc[r] = "pre"
    /\ failed' = [failed EXCEPT ![r] = TRUE]
    /\ pc' = [pc EXCEPT ![r] = "done"]
    /\ UNCHANGED <<channel, jobVars, sessVars, useVars, sendVars, turnVars, trackVars, arrived, processing, messageQueue, abortController, currentCtx,
                   aborted, execs, notified, callVars, apprVars, lastAnswer>>

\* the handler throws outside callAgent's try block: only enqueue's finally runs
PreThrow(r) ==
    /\ channel = "telegram"
    /\ pc[r] = "pre"
    /\ failed' = [failed EXCEPT ![r] = TRUE]
    /\ Drain(r, abortController)
    /\ UNCHANGED <<channel, jobVars, sessVars, useVars, sendVars, turnVars, trackVars, arrived, aborted, notified, callVars, apprVars, lastAnswer>>

\* callAgent's finally block (abortController = null) and the return to its caller;
\* k is the shape of the handler that called callAgent
ReturnFromCallAgent(r, k) ==
    IF channel = "telegram" /\ k = "plain"
    THEN Drain(r, 0)
    ELSE /\ abortController' = 0
         /\ pc' = [pc EXCEPT ![r] = IF channel = "telegram" THEN "tail" ELSE "done"]
         /\ UNCHANGED <<processing, messageQueue, currentCtx, execs>>

\* the backend stream ends after its result message
StreamEnd(r, k) ==
    /\ pc[r] = "stream"
    /\ r \notin aborted
    \* the backend does not finish a run while one of its permission requests is unanswered
    /\ \A t \in Calls : tcOwner[t] = r => tcState[t] \notin {"reply", "pending", "asking"}
    /\ ReturnFromCallAgent(r, k)
    /\ UNCHANGED <<channel, jobVars, sessVars, useVars, sendVars, turnVars, trackVars, arrived, aborted, notified, failed, callVars, apprVars, lastAnswer>>

ErrorNames == {"AbortError", "Error"}

\* StreamError whose catch block logs the error and sends nothing
StreamErrorSendsNothing(r, name, k) ==
    /\ pc[r] = "stream"
    /\ name = "AbortError" => r \in aborted
    /\ IF \/ name = "AbortError"
          \/ abortController # 0 /\ abortController \in aborted
          \/ channel = "terminal"
       THEN ReturnFromCallAgent(r, k)
       ELSE \* no reply: the run returns at once
            ReturnFromCallAgent(r, k)
    /\ UNCHANGED <<channel, jobVars, sessVars, useVars, sendVars, turnVars, trackVars, arrived, aborted, notified, failed, callVars, apprVars, lastAnswer>>

\* the catch block of callAgent: the for-await loop raised an error named name
StreamError(r, name, k) ==
    /\ pc[r] = "stream"
    /\ name = "AbortError" => r \in aborted
    /\ IF \/ name = "AbortError"
          \/ abortController # 0 /\ abortController \in aborted
          \/ channel = "terminal"
       THEN ReturnFromCallAgent(r, k)
       ELSE \* await ctx.reply("Something went wrong...")
            /\ k = "plain"
            /\ pc' = [pc EXCEPT ![r] = "catch"]
            /\ UNCHANGED <<processing, messageQueue, abortController, currentCtx, execs>>
    /\ UNCHANGED <<channel, jobVars, sessVars, useVars, sendVars, turnVars, trackVars, arrived, aborted, notified, failed, callVars, apprVars, lastAnswer>>

\* the failure notice has been sent: finally block
CatchDone(r, k) ==
    /\ pc[r] = "catch"
    /\ ReturnFromCallAgent(r, k)
    /\ UNCHANGED <<channel, jobVars, sessVars, useVars, sendVars, turnVars, trackVars, arrived, aborted, notified, failed, callVars, apprVars, lastAnswer>>

\* a wrapping handler returns after its own awaits: enqueue's finally block
TailDone(r) ==
    /\ pc[r] = "tail"
    /\ Drain(r, abortController)
    /\ UNCHANGED <<channel, jobVars, sessVars, useVars, sendVars, turnVars, trackVars, arrived, aborted, notified, failed, callVars, apprVars, lastAnswer>>

\* Stop that also clears the pending approvals
StopDropsApprovals ==
    /\ abortController # 0
    /\ aborted' = aborted \cup {abortController}
    /\ abortController' = 0
    /\ processing' = FALSE
    /\ pendingApprovals' = [i \in DOMAIN pendingApprovals |-> 0]
    /\ UNCHANGED <<channel, jobVars, sessVars, useVars, sendVars, turnVars, trackVars, arrived, pc, messageQueue, currentCtx, execs, notified, failed,
                   callVars, tcState, tcId, tcTimer, tcResolves, tcVia, lastAnswer>>

\* Stop without processing = false
StopKeepsBusy ==
    /\ abortController # 0
    /\ aborted' = aborted \cup {abortController}
    /\ abortController' = 0
    /\ UNCHANGED <<channel, jobVars, sessVars, useVars, sendVars, turnVars, trackVars, arrived, pc, processing, messageQueue, currentCtx, execs, notified,
                   failed, callVars, apprVars, lastAnswer>>

\* /stop, the stop words, and /stop or SIGINT of the terminal relay
Stop ==
    /\ abortController # 0
    /\ aborted' = aborted \cup {abortController}
    /\ abortController' = 0
    /\ processing' = FALSE
    /\ UNCHANGED <<channel, jobVars, sessVars, useVars, sendVars, turnVars, trackVars, arrived, pc, messageQueue, currentCtx, execs, notified, failed,
                   callVars, apprVars, lastAnswer>>

\* ---------------------------------------------------- the approval gate

\* the risk classifier: a dangerous Bash command or a Write/Edit to a sensitive path
isFlagged(tool, risky) ==
    \/ tool = "Bash" /\ risky
    \/ tool \in {"Write", "Edit"} /\ risky

\* NeedsApproval without the sensitive path branch
NeedsApprovalBashOnly(tool, risky) ==
    IF tool = "Bash" /\ risky THEN TRUE
    ELSE FALSE

\* the conditions of canUseTool under which approval is requested
NeedsApproval(tool, risky) ==
    IF tool = "Bash" /\ risky THEN TRUE
    ELSE IF (tool = "Write" \/ tool = "Edit") /\ risky THEN TRUE
    ELSE FALSE

\* resolve(ok) of the promise of call t; only the first call settles the promise
Resolve(t, ok, via) ==
    /\ tcResolves' = [tcResolves EXCEPT ![t] = @ + 1]
    /\ IF tcState[t] \in {"pending", "asking"}
       THEN /\ tcState' = [tcState EXCEPT ![t] = IF ok THEN "allow" ELSE "deny"]
            /\ tcVia' = [tcVia EXCEPT ![t] = via]
       ELSE UNCHANGED <<tcState, tcVia>>

\* canUseTool(toolName, input) called by the backend for run r
ToolCall(r, tool, risky, id) ==
    /\ pc[r] = "stream"
    /\ r \notin aborted
    /\ nCalls < MaxCalls
    /\ LET t == nCalls + 1 IN
       /\ nCalls' = t
       /\ tcOwner' = [tcOwner EXCEPT ![t] = r]
       /\ tcFlagged' = [tcFlagged EXCEPT ![t] = isFlagged(tool, risky)]
       /\ IF ~NeedsApproval(tool, risky)
          THEN /\ tcState' = [tcState EXCEPT ![t] = "allow"]
               /\ id = "a"
               /\ UNCHANGED <<tcId, tcVia>>
          ELSE IF channel = "terminal"
          THEN \* requestTerminalApproval: rl.question
               /\ \A u \in Calls : tcState[u] # "asking"
               /\ id = "a"
               /\ tcState' = [tcState EXCEPT ![t] = "asking"]
               /\ UNCHANGED <<tcId, tcVia>>
          ELSE IF currentCtx = 0
          THEN \* requestTelegramApproval: if (!currentCtx) return false
               /\ id = "a"
               /\ tcState' = [tcState EXCEPT ![t] = "deny"]
               /\ tcVia' = [tcVia EXCEPT ![t] = "noctx"]
               /\ UNCHANGED tcId
          ELSE \* id = Math.random()...; await currentCtx.reply(.., keyboard)
               /\ tcId' = [tcId EXCEPT ![t] = id]
               /\ tcState' = [tcState EXCEPT ![t] = "reply"]
               /\ UNCHANGED tcVia
    /\ UNCHANGED <<channel, jobVars, sessVars, useVars, sendVars, turnVars, trackVars, queueVars, tcTimer, tcResolves, pendingApprovals, lastAnswer>>

\* the prompt with the buttons was delivered: the promise executor arms the timer and stores the entry
ReplySent(t) ==
    /\ tcState[t] = "reply"
    /\ tcState' = [tcState EXCEPT ![t] = "pending"]
    /\ tcTimer' = [tcTimer EXCEPT ![t] = TRUE]
    /\ pendingApprovals' = [pendingApprovals EXCEPT ![tcId[t]] = t]
    /\ UNCHANGED <<channel, jobVars, sessVars, useVars, sendVars, turnVars, trackVars, queueVars, callVars, tcId, tcResolves, tcVia, lastAnswer>>

\* currentCtx.reply rejects: requestTelegramApproval and canUseTool reject, no decision is returned
ReplyFail(t) ==
    /\ tcState[t] = "reply"
    /\ tcState' = [tcState EXCEPT ![t] = "threw"]
    /\ UNCHANGED <<channel, jobVars, sessVars, useVars, sendVars, turnVars, trackVars, queueVars, callVars, tcId, tcTimer, tcResolves, tcVia,
                   pendingApprovals, lastAnswer>>

\* ids for which a prompt with buttons has been delivered
ButtonIds == {tcId[t] : t \in {u \in Calls : tcId[u] # NoId /\ tcState[u] \in {"pending", "allow", "deny"}}}

Decisions == {"approve", "reject"}

\* Callback without clearTimeout(pending.timer)
CallbackKeepsTimer(action, id) ==
    /\ channel = "telegram"
    /\ id \in ButtonIds
    /\ IF pendingApprovals[id] = 0
       THEN /\ lastAnswer' = "Expired"
            /\ UNCHANGED apprVars
       ELSE LET t == pendingApprovals[id] IN
            /\ pendingApprovals' = [pendingApprovals EXCEPT ![id] = 0]
            /\ Resolve(t, action = "approve", "button")
            /\ lastAnswer' = IF action = "approve" THEN "Approved" ELSE "Rejected"
            /\ UNCHANGED <<tcId, tcTimer>>
    /\ UNCHANGED <<channel, jobVars, sessVars, useVars, sendVars, turnVars, trackVars, queueVars, callVars>>

\* Callback without pendingApprovals.delete(id)
CallbackKeepsEntry(action, id) ==
    /\ channel = "telegram"
    /\ id \in ButtonIds
    /\ IF pendingApprovals[id] = 0
       THEN /\ lastAnswer' = "Expired"
            /\ UNCHANGED apprVars
       ELSE LET t == pendingApprovals[id] IN
            /\ tcTimer' = [tcTimer EXCEPT ![t] = FALSE]
            /\ Resolve(t, action = "approve", "button")
            /\ lastAnswer' = IF action = "approve" THEN "Approved" ELSE "Rejected"
            /\ UNCHANGED <<tcId, pendingApprovals>>
    /\ UNCHANGED <<channel, jobVars, sessVars, useVars, sendVars, turnVars, trackVars, queueVars, callVars>>

\* bot.on("callback_query:data") for a press of the authorized user
Callback(action, id) ==
    /\ channel = "telegram"
    /\ id \in ButtonIds
    /\ IF pendingApprovals[id] = 0
       THEN /\ lastAnswer' = "Expired"
            /\ UNCHANGED apprVars
       ELSE LET t == pendingApprovals[id] IN
            /\ tcTimer' = [tcTimer EXCEPT ![t] = FALSE]
            /\ pendingApprovals' = [pendingApprovals EXCEPT ![id] = 0]
            /\ Resolve(t, action = "approve", "button")
            /\ lastAnswer' = IF action = "approve" THEN "Approved" ELSE "Rejected"
            /\ UNCHANGED tcId
    /\ UNCHANGED <<channel, jobVars, sessVars, useVars, sendVars, turnVars, trackVars, queueVars, callVars>>

\* TimerFire without pendingApprovals.delete(id)
TimerFireKeepsEntry(t) ==
    /\ tcTimer[t]
    /\ tcTimer' = [tcTimer EXCEPT ![t] = FALSE]
    /\ Resolve(t, FALSE, "timeout")
    /\ UNCHANGED <<channel, jobVars, sessVars, useVars, sendVars, turnVars, trackVars, queueVars, callVars, tcId, pendingApprovals, lastAnswer>>

\* the 10 minute timer of call t fires
TimerFire(t) ==
    /\ tcTimer[t]
    /\ tcTimer' = [tcTimer EXCEPT ![t] = FALSE]
    /\ pendingApprovals' = [pendingApprovals EXCEPT ![tcId[t]] = 0]
    /\ Resolve(t, FALSE, "timeout")
    /\ UNCHANGED <<channel, jobVars, sessVars, useVars, sendVars, turnVars, trackVars, queueVars, callVars, tcId, lastAnswer>>

\* the user answers the [y/N] question of the terminal relay
TermAnswer(t, yes) ==
    /\ tcState[t] = "asking"
    /\ Resolve(t, yes, "answer")
    /\ UNCHANGED <<channel, jobVars, sessVars, useVars, sendVars, turnVars, trackVars, queueVars, callVars, tcId, tcTimer, pendingApprovals, lastAnswer>>

\* ------------------------------------- the turn segmenter and the flush scheduler

\* Strings are sequences of one-character strings, indexed from 0 as in JavaScript.
NL == "\n"
Word == [i \in 1..WordLen |-> "w"]
Blocks == {Word, <<" ">>, <<".", " ">>, <<NL, NL>>}
\* the texts an assistant message can carry: up to two blocks, then possibly a word;
\* <<>> is a message without text
Texts == {a \o b \o c : a \in Blocks \cup {<<>>}, b \in Blocks \cup {<<>>}, c \in {<<>>, Word}}
\* msg.uuid; "" is a message without uuid
Uuids == {"", "u1", "u2"}

Max(S) == CHOOSE x \in S : \A y \in S : y <= x

\* String.prototype.lastIndexOf
lastIndexOf(str, pat) ==
    LET hits == {i \in 0..(Len(str) - Len(pat)) : \A j \in 1..Len(pat) : str[i + j] = pat[j]}
    IN  IF hits = {} THEN -1 ELSE Max(hits)

\* String.prototype.includes
includes(str, pat) == lastIndexOf(str, pat) # -1

\* String.prototype.slice(start) and slice(0, end)
slice(str, start) == SubSeq(str, start + 1, Len(str))
sliceTo(str, end) == SubSeq(str, 1, end)

\* String.prototype.trim
trim(str) ==
    LET ws(i) == str[i] \in {" ", NL}
    IN  IF \A i \in 1..Len(str) : ws(i) THEN <<>>
        ELSE SubSeq(str,
                    CHOOSE i \in 1..Len(str) : ~ws(i) /\ \A j \in 1..(i - 1) : ws(j),
                    CHOOSE i \in 1..Len(str) : ~ws(i) /\ \A j \in (i + 1)..Len(str) : ws(j))

hasParagraphBreak(unsent) == includes(unsent, <<NL, NL>>) /\ Len(unsent) > ParagraphMin
isLarge(unsent) == Len(unsent) > LargeMin
isStale(unsent, since) == since > StaleMs /\ Len(unsent) > StaleMin

sentenceEnd(unsent) ==
    Max({lastIndexOf(unsent, <<".", " ">>), lastIndexOf(unsent, <<".", NL>>),
         lastIndexOf(unsent, <<"?", " ">>), lastIndexOf(unsent, <<"!", " ">>)})

\* flushEnd that takes the last sentence end or space wherever it lies
flushEndWithoutThreshold(unsent) ==
    IF hasParagraphBreak(unsent)
    THEN LET paraIdx == lastIndexOf(unsent, <<NL, NL>>)
         IN  IF paraIdx > 0 THEN paraIdx ELSE Len(unsent)
    ELSE LET end == sentenceEnd(unsent)
             lastSpace == lastIndexOf(unsent, <<" ">>)
         IN  IF end >= 0 THEN end + 1
             ELSE IF lastSpace >= 0 THEN lastSpace
             ELSE Len(unsent)

\* the split point of a flush; x > unsent.length * 0.3 is 10 x > 3 unsent.length
flushEnd(unsent) ==
    IF hasParagraphBreak(unsent)
    THEN LET paraIdx == lastIndexOf(unsent, <<NL, NL>>)
         IN  IF paraIdx > 0 THEN paraIdx ELSE Len(unsent)
    ELSE LET end == sentenceEnd(unsent)
             lastSpace == lastIndexOf(unsent, <<" ">>)
         IN  IF 10 * end > 3 * Len(unsent) THEN end + 1
             ELSE IF 10 * lastSpace > 3 * Len(unsent) THEN lastSpace
             ELSE Len(unsent)

\* a canUseTool call of the backend awaits requestTelegramApproval or the [y/N] answer
Waiting == \E t \in Calls : tcState[t] \in {"reply", "pending", "asking"}

\* the new-turn test with <= for <
ShorterOrEqualText(text) == Len(text) <= Len(currentTurnText) /\ currentTurnText # <<>>

\* new-turn detection of the Telegram relay: the text got shorter
ShorterText(text) == Len(text) < Len(currentTurnText) /\ currentTurnText # <<>>

\* isNewTurn of the terminal relay
isNewTurn(text, uuid) ==
    \/ uuid # "" /\ currentMsgUuid # "" /\ uuid # currentMsgUuid
    \/ uuid = "" /\ ShorterText(text)


\* Flush that advances currentTurnSent by the length of the trimmed chunk
FlushAdvancesByChunk(sent0, hwm0, text) ==
    LET unsent == slice(text, sent0)
        end == flushEnd(unsent)
        chunk == trim(sliceTo(unsent, end))
    IN  IF (hasParagraphBreak(unsent) \/ isLarge(unsent) \/ isStale(unsent, sinceFlush))
           /\ chunk # <<>>
        THEN /\ emitKind' = "triggered"
             /\ lastChunk' = chunk
             /\ emitFrom' = sent0
             /\ currentTurnSent' = sent0 + Len(chunk)
             /\ hwm' = sent0 + end
             /\ sinceFlush' = 0
        ELSE /\ emitKind' = "none"
             /\ lastChunk' = <<>>
             /\ emitFrom' = sent0
             /\ currentTurnSent' = sent0
             /\ hwm' = hwm0
             /\ sinceFlush' = sinceFlush

\* Flush without the isStale trigger
FlushWithoutStale(sent0, hwm0, text) ==
    LET unsent == slice(text, sent0)
        end == flushEnd(unsent)
        chunk == trim(sliceTo(unsent, end))
    IN  IF (hasParagraphBreak(unsent) \/ isLarge(unsent))
           /\ chunk # <<>>
        THEN /\ emitKind' = "triggered"
             /\ lastChunk' = chunk
             /\ emitFrom' = sent0
             /\ currentTurnSent' = sent0 + end
             /\ hwm' = sent0 + end
             /\ sinceFlush' = 0
        ELSE /\ emitKind' = "none"
             /\ lastChunk' = <<>>
             /\ emitFrom' = sent0
             /\ currentTurnSent' = sent0
             /\ hwm' = hwm0
             /\ sinceFlush' = sinceFlush

\* the flush block of the Telegram relay for the turn text, with sent0 characters sent;
\* the chunk goes to sendResponse
Flush(sent0, hwm0, text) ==
    LET unsent == slice(text, sent0)
        end == flushEnd(unsent)
        chunk == trim(sliceTo(unsent, end))
    IN  IF (hasParagraphBreak(unsent) \/ isLarge(unsent) \/ isStale(unsent, sinceFlush))
           /\ chunk # <<>>
        THEN /\ emitKind' = "triggered"
             /\ lastChunk' = chunk
             /\ emitFrom' = sent0
             /\ currentTurnSent' = sent0 + end
             /\ hwm' = sent0 + end
             /\ sinceFlush' = 0
        ELSE /\ emitKind' = "none"
             /\ lastChunk' = <<>>
             /\ emitFrom' = sent0
             /\ currentTurnSent' = sent0
             /\ hwm' = hwm0
             /\ sinceFlush' = sinceFlush

\* the terminal relay writes everything after currentTurnPrinted to stdout
PrintNew(sent0, hwm0, text) ==
    LET newContent == slice(text, sent0)
    IN  /\ sinceFlush' = sinceFlush
        /\ emitFrom' = sent0
        /\ IF newContent # <<>>
           THEN /\ emitKind' = "print"
                /\ lastChunk' = newContent
                /\ currentTurnSent' = Len(text)
                /\ hwm' = Len(text)
           ELSE /\ emitKind' = "none"
                /\ lastChunk' = <<>>
                /\ currentTurnSent' = sent0
                /\ hwm' = hwm0

\* TextEvent that is taken only once every approval has been resolved
TextEventAfterApproval(text, uuid) ==
    /\ pc[1] = "stream"
    /\ ~Waiting
    /\ ~gotResult
    /\ nEvents < MaxEvents
    /\ nEvents' = nEvents + 1
    /\ waitingAtEvent' = Waiting
    /\ IF text = <<>>
       THEN UNCHANGED <<currentTurnText, currentTurnSent, currentMsgUuid, allResponses,
                        sinceFlush, prevUuid, emitKind, lastChunk, emitFrom, hwm>>
       ELSE LET new == IF channel = "telegram" THEN ShorterText(text) ELSE isNewTurn(text, uuid)
                sent0 == IF new THEN 0 ELSE currentTurnSent
                hwm0 == IF new THEN 0 ELSE hwm
            IN  /\ allResponses' = IF new /\ currentTurnText # <<>>
                                   THEN Append(allResponses, currentTurnText)
                                   ELSE allResponses
                /\ currentTurnText' = text
                /\ currentMsgUuid' = IF channel = "terminal" /\ uuid # "" THEN uuid ELSE currentMsgUuid
                /\ prevUuid' = uuid
                /\ IF channel = "telegram"
                   THEN Flush(sent0, hwm0, text)
                   ELSE PrintNew(sent0, hwm0, text)
    /\ UNCHANGED <<channel, jobVars, sessVars, useVars, sendVars, queueVars, callVars, apprVars, lastAnswer, gotResult, trackVars>>

\* an assistant message of the observed run with text and uuid: the "if (text)" block
TextEvent(text, uuid) ==
    /\ pc[1] = "stream"
    /\ ~gotResult
    /\ nEvents < MaxEvents
    /\ nEvents' = nEvents + 1
    /\ waitingAtEvent' = Waiting
    /\ IF text = <<>>
       THEN UNCHANGED <<currentTurnText, currentTurnSent, currentMsgUuid, allResponses,
                        sinceFlush, prevUuid, emitKind, lastChunk, emitFrom, hwm>>
       ELSE LET new == IF channel = "telegram" THEN ShorterText(text) ELSE isNewTurn(text, uuid)
                sent0 == IF new THEN 0 ELSE currentTurnSent
                hwm0 == IF new THEN 0 ELSE hwm
            IN  /\ allResponses' = IF new /\ currentTurnText # <<>>
                                   THEN Append(allResponses, currentTurnText)
                                   ELSE allResponses
                /\ currentTurnText' = text
                /\ currentMsgUuid' = IF channel = "terminal" /\ uuid # "" THEN uuid ELSE currentMsgUuid
                /\ prevUuid' = uuid
                /\ IF channel = "telegram"
                   THEN Flush(sent0, hwm0, text)
                   ELSE PrintNew(sent0, hwm0, text)
    /\ UNCHANGED <<channel, jobVars, sessVars, useVars, sendVars, queueVars, callVars, apprVars, lastAnswer, gotResult, trackVars>>

\* an assistant message of the observed run of the Telegram relay whose chunk is not
\* delivered: ctx.reply rejects inside sendResponse, the flush block is left before
\* currentTurnSent and lastFlush are assigned, and the catch block of callAgent takes
\* the error and sends the failure notice
FlushRejected(text) ==
    /\ channel = "telegram"
    /\ pc[1] = "stream"
    /\ ~gotResult
    /\ nEvents < MaxEvents
    /\ text # <<>>
    /\ LET new == ShorterText(text)
           sent0 == IF new THEN 0 ELSE currentTurnSent
           unsent == slice(text, sent0)
           chunk == trim(sliceTo(unsent, flushEnd(unsent)))
       IN  /\ hasParagraphBreak(unsent) \/ isLarge(unsent) \/ isStale(unsent, sinceFlush)
           /\ chunk # <<>>
           /\ allResponses' = IF new /\ currentTurnText # <<>>
                              THEN Append(allResponses, currentTurnText)
                              ELSE allResponses
           /\ currentTurnText' = text
           /\ currentTurnSent' = sent0
           /\ hwm' = IF new THEN 0 ELSE hwm
           /\ emitFrom' = sent0
    /\ nEvents' = nEvents + 1
    /\ waitingAtEvent' = Waiting
    /\ prevUuid' = ""
    /\ emitKind' = "none"
    /\ lastChunk' = <<>>
    /\ pc' = [pc EXCEPT ![1] = "catch"]
    /\ UNCHANGED <<channel, jobVars, sessVars, useVars, sendVars, trackVars, callVars, apprVars,
                   lastAnswer, currentMsgUuid, sinceFlush, gotResult, arrived, processing,
                   messageQueue, abortController, currentCtx, aborted, execs, notified, failed>>

\* more than three seconds pass without a flush
Wait ==
    /\ channel = "telegram"
    /\ pc[1] = "stream"
    /\ ~gotResult
    /\ sinceFlush <= StaleMs
    /\ sinceFlush' = StaleMs + 1
    /\ UNCHANGED <<channel, jobVars, sessVars, useVars, sendVars, queueVars, callVars, apprVars, lastAnswer, trackVars,
                   currentTurnText, currentTurnSent, currentMsgUuid, allResponses,
                   gotResult, nEvents, prevUuid, emitKind, lastChunk, emitFrom, hwm,
                   waitingAtEvent>>

\* ResultEvent that sends the rest only when a flush trigger holds
ResultEventWhenTriggered(result) ==
    /\ pc[1] = "stream"
    /\ ~gotResult
    /\ gotResult' = TRUE
    /\ LET unsent == slice(currentTurnText, currentTurnSent)
           remaining == trim(unsent)
           noText == allResponses = <<>> /\ currentTurnText = <<>>
       IN  /\ allResponses' = IF currentTurnText # <<>> THEN Append(allResponses, currentTurnText)
                              ELSE IF noText /\ result /\ channel = "telegram" THEN <<<<"r">>>>
                              ELSE allResponses
           /\ emitFrom' = currentTurnSent
           /\ IF /\ channel = "telegram" /\ remaining # <<>>
                 /\ (hasParagraphBreak(unsent) \/ isLarge(unsent) \/ isStale(unsent, sinceFlush))
              THEN emitKind' = "final" /\ lastChunk' = remaining /\ hwm' = Len(currentTurnText)
              ELSE IF noText /\ result
              THEN emitKind' = "result" /\ lastChunk' = <<"r">> /\ hwm' = hwm
              ELSE emitKind' = "none" /\ lastChunk' = <<>> /\ hwm' = hwm
    /\ UNCHANGED <<channel, jobVars, sessVars, useVars, sendVars, queueVars, callVars, apprVars, lastAnswer, trackVars,
                   currentTurnText, currentTurnSent, currentMsgUuid, sinceFlush, nEvents, prevUuid,
                   waitingAtEvent>>

\* the result message of the observed run: the last turn is collected and what is left
\* of it is sent; result says whether the message carries a result string ("r")
ResultEvent(result) ==
    /\ pc[1] = "stream"
    /\ ~gotResult
    /\ gotResult' = TRUE
    /\ LET remaining == trim(slice(currentTurnText, currentTurnSent))
           noText == allResponses = <<>> /\ currentTurnText = <<>>
       IN  /\ allResponses' = IF currentTurnText # <<>> THEN Append(allResponses, currentTurnText)
                              ELSE IF noText /\ result /\ channel = "telegram" THEN <<<<"r">>>>
                              ELSE allResponses
           /\ emitFrom' = currentTurnSent
           /\ IF channel = "telegram" /\ remaining # <<>>
              THEN emitKind' = "final" /\ lastChunk' = remaining /\ hwm' = Len(currentTurnText)
              ELSE IF noText /\ result
              THEN emitKind' = "result" /\ lastChunk' = <<"r">> /\ hwm' = hwm
              ELSE emitKind' = "none" /\ lastChunk' = <<>> /\ hwm' = hwm
    /\ UNCHANGED <<channel, jobVars, sessVars, useVars, sendVars, queueVars, callVars, apprVars, lastAnswer, trackVars,
                   currentTurnText, currentTurnSent, currentMsgUuid, sinceFlush, nEvents, prevUuid,
                   waitingAtEvent>>

\* ------------------------------------------------------- the ContextTracker

\* The token counts up to 2 * CONTEXT_WINDOW at which (t / 200000) * 100, evaluated in
\* IEEE-754 double arithmetic, comes out just below the tie k + 0.5 that it is in exact
\* arithmetic (14.499999999999998 for 29000), so that Math.round rounds it down.  At every
\* other count the double and the exact value round to the same integer.
RoundsDown == {29000, 57000, 113000, 115000}

\* usedPct without Math.min(100, ...)
usedPctUncapped(t) ==
    LET halfUp == (200 * t + CONTEXT_WINDOW) \div (2 * CONTEXT_WINDOW)
    IN  IF t \in RoundsDown THEN halfUp - 1 ELSE halfUp

\* usedPct: Math.min(100, Math.round((tokens / CONTEXT_WINDOW) * 100)); Math.round
\* rounds a tie up
usedPct(t) ==
    LET halfUp == (200 * t + CONTEXT_WINDOW) \div (2 * CONTEXT_WINDOW)
        rounded == IF t \in RoundsDown THEN halfUp - 1 ELSE halfUp
    IN  IF rounded < 100 THEN rounded ELSE 100

remainingPct(t) == 100 - usedPct(t)

\* what callAgent passes to addTokens: the tool overhead, the estimate of a message
AddAmounts == {TOOL_OVERHEAD_PER_TURN, charsToTokens(70000)}
\* usage.input_tokens values reported by the backend
UsageTokens == {1200, 150000, 181000, 191000}

\* tracker.addTokens(n)
AddTokens(n) ==
    /\ tokens + n <= MaxTokens
    /\ tokens' = tokens + n
    /\ UNCHANGED <<channel, jobVars, sessVars, useVars, sendVars, queueVars, callVars, apprVars, lastAnswer, turnVars,
                   warnings, returned, lastWarning, warnedBefore>>

\* tracker.setTokens(n), called when usage.input_tokens is reported
SetTokens(n) ==
    /\ tokens' = n
    /\ UNCHANGED <<channel, jobVars, sessVars, useVars, sendVars, queueVars, callVars, apprVars, lastAnswer, turnVars,
                   warnings, returned, lastWarning, warnedBefore>>

\* reset() that leaves the warning flags as they are
resetTokensOnly ==
    /\ tokens' = SYSTEM_PROMPT_ESTIMATE
    /\ UNCHANGED <<warnings, returned, warnedBefore>>

\* the body of reset()
resetTracker ==
    /\ tokens' = SYSTEM_PROMPT_ESTIMATE
    /\ warnings' = [pct10 |-> FALSE, pct5 |-> FALSE]
    /\ returned' = [pct10 |-> 0, pct5 |-> 0]
    /\ warnedBefore' = [pct10 |-> warnedBefore.pct10 \/ returned.pct10 > 0,
                        pct5 |-> warnedBefore.pct5 \/ returned.pct5 > 0]

\* tracker.reset(): compaction detected, or /new
Reset ==
    /\ resetTracker
    /\ UNCHANGED <<channel, jobVars, sessVars, useVars, sendVars, queueVars, callVars, apprVars, lastAnswer, turnVars, lastWarning>>

\* CheckWarnings without the 5% branch
CheckWarningsSkipsPct5 ==
    /\ IF remainingPct(tokens) <= 10 /\ ~warnings.pct10
       THEN /\ warnings' = [warnings EXCEPT !.pct10 = TRUE]
            /\ returned' = [returned EXCEPT !.pct10 = @ + 1]
            /\ lastWarning' = "pct10"
       ELSE /\ lastWarning' = "null"
            /\ UNCHANGED <<warnings, returned>>
    /\ UNCHANGED <<channel, jobVars, sessVars, useVars, sendVars, queueVars, callVars, apprVars, lastAnswer, turnVars, tokens, warnedBefore>>

\* CheckWarnings that does not record the 10% warning
CheckWarningsForgets ==
    /\ IF remainingPct(tokens) <= 5 /\ ~warnings.pct5
       THEN /\ warnings' = [warnings EXCEPT !.pct5 = TRUE]
            /\ returned' = [returned EXCEPT !.pct5 = @ + 1]
            /\ lastWarning' = "pct5"
       ELSE IF remainingPct(tokens) <= 10 /\ ~warnings.pct10
       THEN /\ warnings' = warnings
            /\ returned' = [returned EXCEPT !.pct10 = @ + 1]
            /\ lastWarning' = "pct10"
       ELSE /\ lastWarning' = "null"
            /\ UNCHANGED <<warnings, returned>>
    /\ UNCHANGED <<channel, jobVars, sessVars, useVars, sendVars, queueVars, callVars, apprVars, lastAnswer, turnVars, tokens, warnedBefore>>

\* tracker.checkWarnings()
CheckWarnings ==
    /\ IF remainingPct(tokens) <= 5 /\ ~warnings.pct5
       THEN /\ warnings' = [warnings EXCEPT !.pct5 = TRUE]
            /\ returned' = [returned EXCEPT !.pct5 = @ + 1]
            /\ lastWarning' = "pct5"
       ELSE IF remainingPct(tokens) <= 10 /\ ~warnings.pct10
       THEN /\ warnings' = [warnings EXCEPT !.pct10 = TRUE]
            /\ returned' = [returned EXCEPT !.pct10 = @ + 1]
            /\ lastWarning' = "pct10"
       ELSE /\ lastWarning' = "null"
            /\ UNCHANGED <<warnings, returned>>
    /\ UNCHANGED <<channel, jobVars, sessVars, useVars, sendVars, queueVars, callVars, apprVars, lastAnswer, turnVars, tokens, warnedBefore>>

\* CheckWarnings on the count t that addTokens has just stored
checkWarningsAfterAdd(t) ==
    IF remainingPct(t) <= 5 /\ ~warnings.pct5
    THEN /\ warnings' = [warnings EXCEPT !.pct5 = TRUE]
         /\ returned' = [returned EXCEPT !.pct5 = @ + 1]
         /\ lastWarning' = "pct5"
    ELSE IF remainingPct(t) <= 10 /\ ~warnings.pct10
    THEN /\ warnings' = [warnings EXCEPT !.pct10 = TRUE]
         /\ returned' = [returned EXCEPT !.pct10 = @ + 1]
         /\ lastWarning' = "pct10"
    ELSE /\ lastWarning' = "null"
         /\ UNCHANGED <<warnings, returned>>

\* ------------------------------------------------------- the session

\* the message field of the system messages
SystemTexts == {"", "Conversation compacted", "ready"}
\* /compact/i.test(String(message))
mentionsCompact(message) == message = "Conversation compacted"

Message(type, subtype, session_id, message, content, input_tokens, chars) ==
    [type |-> type, subtype |-> subtype, session_id |-> session_id, message |-> message,
     content |-> content, input_tokens |-> input_tokens, chars |-> chars]

\* usage.input_tokens of the assistant messages of the session specification
SessionUsage == {n \in UsageTokens : remainingPct(n) <= 10}

\* the messages the backend streams, by the fields the session reads: chars is the length
\* finalResponse has when a result message is handled
Messages ==
    {Message("system", "init", sid, "", FALSE, 0, 0) : sid \in SessionIds \cup {NoSession}}
    \cup {Message("system", subtype, NoSession, "", FALSE, 0, 0) : subtype \in {"compaction", "compact"}}
    \cup {Message("system", "status", NoSession, text, FALSE, 0, 0) : text \in SystemTexts}
    \cup {Message("assistant", "", NoSession, "", TRUE, n, 0) : n \in SessionUsage \cup {0}}
    \cup {Message("assistant", "", NoSession, "", FALSE, n, 0) : n \in SessionUsage}
    \cup {Message(type, "", NoSession, "", FALSE, 0, 0) : type \in {"tool_use", "user", "stream_event"}}
    \cup {Message("result", "success", NoSession, "", FALSE, 0, chars) : chars \in {0, 70000}}

\* the test of relay-core.ts:905-906
isCompaction(m) ==
    /\ m.type = "system"
    /\ \/ m.subtype \in {"compaction", "compact"}
       \/ m.message # "" /\ mentionsCompact(m.message)

\* the conditions of the if-statements of the loop body: a message that meets none of
\* them is skipped
KnownVariant(m) ==
    \/ m.type = "system" /\ m.subtype = "init"
    \/ isCompaction(m)
    \/ m.type = "assistant" /\ m.content
    \/ m.type \in {"tool_use", "result"}

\* sessionId = await loadSession(), before the bot starts polling
LoadSession(sid) ==
    /\ channel = "telegram"
    /\ arrived = 0
    /\ sessionId = NoSession
    /\ sessionId' = sid
    /\ UNCHANGED <<channel, jobVars, nMsgs, skipped, useVars, sendVars, queueVars, callVars, apprVars,
                   lastAnswer, turnVars, trackVars>>

\* SessionMessage that adds the tool overhead for every message it does not know
SessionMessageChargesEvery(r, m) ==
    /\ channel = "telegram"
    /\ pc[r] = "stream"
    /\ nMsgs < MaxMsgs
    /\ nMsgs' = nMsgs + 1
    /\ skipped' = ~KnownVariant(m)
    /\ sessionId' = IF m.type = "system" /\ m.subtype = "init" /\ m.session_id # NoSession
                    THEN m.session_id
                    ELSE sessionId
    /\ IF isCompaction(m)
       THEN resetTracker /\ UNCHANGED lastWarning
       ELSE IF m.type = "assistant" /\ m.content /\ m.input_tokens # 0
       THEN tokens' = m.input_tokens /\ UNCHANGED <<warnings, returned, lastWarning, warnedBefore>>
       ELSE IF m.type \notin {"system", "assistant", "result"}
       THEN /\ tokens' = tokens + TOOL_OVERHEAD_PER_TURN
            /\ UNCHANGED <<warnings, returned, lastWarning, warnedBefore>>
       ELSE IF m.type = "result"
       THEN /\ tokens' = tokens + charsToTokens(m.chars)
            /\ checkWarningsAfterAdd(tokens + charsToTokens(m.chars))
            /\ UNCHANGED warnedBefore
       ELSE UNCHANGED trackVars
    /\ UNCHANGED <<channel, jobVars, useVars, sendVars, queueVars, callVars, apprVars,
                   lastAnswer, turnVars>>

\* what the stream loop of run r does to the session with the message m: the
\* if-statements of the loop body, apart from the text of an assistant message
SessionMessage(r, m) ==
    /\ channel = "telegram"
    /\ pc[r] = "stream"
    /\ nMsgs < MaxMsgs
    /\ nMsgs' = nMsgs + 1
    /\ skipped' = ~KnownVariant(m)
    /\ sessionId' = IF m.type = "system" /\ m.subtype = "init" /\ m.session_id # NoSession
                    THEN m.session_id
                    ELSE sessionId
    /\ IF isCompaction(m)
       THEN resetTracker /\ UNCHANGED lastWarning
       ELSE IF m.type = "assistant" /\ m.content /\ m.input_tokens # 0
       THEN tokens' = m.input_tokens /\ UNCHANGED <<warnings, returned, lastWarning, warnedBefore>>
       ELSE IF m.type = "tool_use"
       THEN /\ tokens' = tokens + TOOL_OVERHEAD_PER_TURN
            /\ UNCHANGED <<warnings, returned, lastWarning, warnedBefore>>
       ELSE IF m.type = "result"
       THEN /\ tokens' = tokens + charsToTokens(m.chars)
            /\ checkWarningsAfterAdd(tokens + charsToTokens(m.chars))
            /\ UNCHANGED warnedBefore
       ELSE UNCHANGED trackVars
    /\ UNCHANGED <<channel, jobVars, useVars, sendVars, queueVars, callVars, apprVars,
                   lastAnswer, turnVars>>

\* /new
NewSession ==
    /\ channel = "telegram"
    /\ sessionId' = NoSession
    /\ resetTracker
    /\ UNCHANGED <<channel, jobVars, nMsgs, skipped, useVars, sendVars, queueVars, callVars, apprVars,
                   lastAnswer, turnVars, lastWarning>>

\* ------------------------------------------------------- the rate limiter

\* the times that pass between two readings of Date.now(), which never goes back
Delays == {RATE_LIMIT_WINDOW \div 2, RATE_LIMIT_WINDOW \div 2 + 1}

Tick(d) ==
    /\ now + d <= MaxTime
    /\ now' = now + d
    /\ UNCHANGED <<channel, jobVars, sessVars, sendVars, queueVars, callVars, apprVars, lastAnswer,
                   turnVars, trackVars, rateLimitTimestamps, admitted, limited, privateReplies>>

\* the while loop of isRateLimited: the entries older than the window are shifted out
RECURSIVE shiftOld(_, _)
shiftOld(timestamps, t) ==
    IF timestamps # <<>> /\ Head(timestamps) < t - RATE_LIMIT_WINDOW
    THEN shiftOld(Tail(timestamps), t)
    ELSE timestamps

\* IsRateLimited that records the update it rejects
IsRateLimitedRecordsAll ==
    /\ channel = "telegram"
    /\ LET kept == shiftOld(rateLimitTimestamps, now)
       IN  IF Len(kept) >= RATE_LIMIT_MAX
           THEN /\ rateLimitTimestamps' = Append(kept, now)
                /\ limited' = TRUE
                /\ admitted' = admitted
           ELSE /\ rateLimitTimestamps' = Append(kept, now)
                /\ limited' = FALSE
                /\ admitted' = Append(admitted, now)
    /\ UNCHANGED <<channel, jobVars, sessVars, sendVars, queueVars, callVars, apprVars, lastAnswer,
                   turnVars, trackVars, now, privateReplies>>

\* isRateLimited(), called by the middleware for an update of the authorized user
IsRateLimited ==
    /\ channel = "telegram"
    /\ LET kept == shiftOld(rateLimitTimestamps, now)
       IN  IF Len(kept) >= RATE_LIMIT_MAX
           THEN /\ rateLimitTimestamps' = kept
                /\ limited' = TRUE
                /\ admitted' = admitted
           ELSE /\ rateLimitTimestamps' = Append(kept, now)
                /\ limited' = FALSE
                /\ admitted' = Append(admitted, now)
    /\ UNCHANGED <<channel, jobVars, sessVars, sendVars, queueVars, callVars, apprVars, lastAnswer,
                   turnVars, trackVars, now, privateReplies>>

\* ------------------------------------------------------- sendResponse

\* String.prototype.lastIndexOf(pat, from): the last occurrence that starts at from or before
lastIndexOfFrom(str, pat, from) ==
    LET last == IF from < Len(str) - Len(pat) THEN from ELSE Len(str) - Len(pat)
        hits == {i \in 0..last : \A j \in 1..Len(pat) : str[i + j] = pat[j]}
    IN  IF hits = {} THEN -1 ELSE Max(hits)

\* the number of whitespace characters str starts with
leadingSpace(str) ==
    IF \A i \in 1..Len(str) : str[i] \in {" ", NL}
    THEN Len(str)
    ELSE (CHOOSE i \in 1..Len(str) : str[i] \notin {" ", NL} /\ \A j \in 1..(i - 1) : str[j] \in {" ", NL}) - 1

\* splitIndex with no cut where the text has no whitespace
splitIndexNeverCuts(rem) ==
    LET para == lastIndexOfFrom(rem, <<NL, NL>>, MAX_LENGTH)
        line == lastIndexOfFrom(rem, <<NL>>, MAX_LENGTH)
        space == lastIndexOfFrom(rem, <<" ">>, MAX_LENGTH)
    IN  IF para # -1 THEN para
        ELSE IF line # -1 THEN line
        ELSE IF space # -1 THEN space
        ELSE Len(rem)

\* splitIndex of relay-core.ts:1137-1140
splitIndex(rem) ==
    LET para == lastIndexOfFrom(rem, <<NL, NL>>, MAX_LENGTH)
        line == lastIndexOfFrom(rem, <<NL>>, MAX_LENGTH)
        space == lastIndexOfFrom(rem, <<" ">>, MAX_LENGTH)
    IN  IF para # -1 THEN para
        ELSE IF line # -1 THEN line
        ELSE IF space # -1 THEN space
        ELSE MAX_LENGTH

\* one ctx.reply of sendResponse for the text rem, which starts at off in response
SendPiece(rem, off) ==
    IF Len(rem) <= MAX_LENGTH
    THEN /\ pieces' = Append(pieces, rem)
         /\ pieceAt' = Append(pieceAt, off)
         /\ remainingToSend' = <<>>
         /\ offset' = off + Len(rem)
    ELSE LET cut == splitIndex(rem)
             rest == slice(rem, cut)
         IN  /\ pieces' = Append(pieces, sliceTo(rem, cut))
             /\ pieceAt' = Append(pieceAt, off)
             /\ remainingToSend' = trim(rest)
             /\ offset' = off + cut + leadingSpace(rest)

Filler(n) == [i \in 1..n |-> "x"]
\* the texts sendResponse is called with: a chunk, the rest of a turn or a result string
\* around the length limit, with and without a place to split at
Responses ==
    {Filler(n) \o sep \o Filler(m) :
        n \in {MAX_LENGTH - 10, MAX_LENGTH - 1, MAX_LENGTH, MAX_LENGTH + 1},
        sep \in {<<>>, <<" ">>, <<NL>>, <<NL, NL>>, <<" ", NL, NL, " ">>, <<".", " ", NL>>},
        m \in {0, 10, MAX_LENGTH + 5}}

\* sendResponse(ctx, text) up to its first ctx.reply
SendResponse(text) ==
    /\ channel = "telegram"
    /\ response = <<>>
    /\ response' = text
    /\ SendPiece(text, 0)
    /\ UNCHANGED <<channel, jobVars, sessVars, useVars, queueVars, callVars, apprVars, lastAnswer,
                   turnVars, trackVars>>

\* the next turn of the while loop of sendResponse
SendRest ==
    /\ remainingToSend # <<>>
    /\ SendPiece(remainingToSend, offset)
    /\ UNCHANGED <<channel, jobVars, sessVars, useVars, queueVars, callVars, apprVars, lastAnswer,
                   turnVars, trackVars, response>>

\* ------------------------------------------------------- the middleware

\* process.env.TELEGRAM_USER_ID, which validateSecurityPrerequisites requires to be set
ALLOWED_USER_ID == "42"
\* ctx.from?.id.toString(): "undefined" stands for an update without a sender
UserIds == {"42", "77", "undefined"}

\* the updates the handlers are registered for
Updates ==
    {[kind |-> k, action |-> "none", id |-> NoId] : k \in {"message", "stop", "new"}}
    \cup {[kind |-> "callback", action |-> a, id |-> i] : a \in Decisions, i \in ButtonIds}

\* next(): the handler registered for the update
Handle(update) ==
    IF update.kind = "message" THEN Enqueue(1)
    ELSE IF update.kind = "stop" THEN Stop
    ELSE IF update.kind = "new" THEN NewSession
    ELSE Callback(update.action, update.id)

\* the reply of the middleware to an update it does not pass on
Private ==
    /\ privateReplies < MaxPrivate
    /\ privateReplies' = privateReplies + 1
    /\ UNCHANGED <<channel, jobVars, sessVars, sendVars, queueVars, callVars, apprVars, lastAnswer,
                   turnVars, trackVars, rateLimitTimestamps, now, admitted, limited>>

\* Use that checks the sender of messages and commands only
UseTrustsButtons(userId, update) ==
    /\ channel = "telegram"
    /\ IF userId # ALLOWED_USER_ID /\ update.kind # "callback"
       THEN Private
       ELSE Handle(update)

\* bot.use: the middleware every update passes before its handler; the rate limiter,
\* which only turns away updates of the authorized user, is left to RateSpec
Use(userId, update) ==
    /\ channel = "telegram"
    /\ IF userId # ALLOWED_USER_ID
       THEN Private
       ELSE Handle(update)

\* ------------------------------------------------------- the transcript sync job

\* the backend appends a line to the transcript file
AppendLine(kind) ==
    /\ Len(transcript) < MaxLines
    /\ transcript' = Append(transcript, kind)
    /\ modifiedSinceSync' = TRUE
    /\ UNCHANGED <<syncState, syncPc, lines, lineIdx, lastAssistantText, synced, timesProcessed>>
    /\ UNCHANGED <<channel, remVars, queueVars, callVars, apprVars, lastAnswer, turnVars,
                   trackVars, sessVars, useVars, sendVars>>

\* SyncStart whose loop starts at the first line of the file
SyncStartFromTop ==
    /\ syncPc = "idle"
    /\ IF syncState # 0 /\ ~modifiedSinceSync
       THEN UNCHANGED syncVars
       ELSE IF syncState >= Len(transcript)
       THEN /\ synced' = 0
            /\ UNCHANGED <<transcript, modifiedSinceSync, syncState, syncPc, lines, lineIdx,
                           lastAssistantText, timesProcessed>>
       ELSE /\ lines' = transcript
            /\ lineIdx' = 0
            /\ lastAssistantText' = 0
            /\ synced' = 0
            /\ syncPc' = "loop"
            /\ UNCHANGED <<transcript, modifiedSinceSync, syncState, timesProcessed>>
    /\ UNCHANGED <<channel, remVars, queueVars, callVars, apprVars, lastAnswer, turnVars,
                   trackVars, sessVars, useVars, sendVars>>

\* a run of the sync job up to the for loop of syncFile: main loads the state and skips
\* the file when it was not modified since the last sync; syncFile reads the file and
\* returns 0 when there is no line after lastLine; saveSyncState then stores the state
SyncStart ==
    /\ syncPc = "idle"
    /\ IF syncState # 0 /\ ~modifiedSinceSync
       THEN UNCHANGED syncVars
       ELSE IF syncState >= Len(transcript)
       THEN /\ synced' = 0
            /\ UNCHANGED <<transcript, modifiedSinceSync, syncState, syncPc, lines, lineIdx,
                           lastAssistantText, timesProcessed>>
       ELSE /\ lines' = transcript
            /\ lineIdx' = syncState
            /\ lastAssistantText' = 0
            /\ synced' = 0
            /\ syncPc' = "loop"
            /\ UNCHANGED <<transcript, modifiedSinceSync, syncState, timesProcessed>>
    /\ UNCHANGED <<channel, remVars, queueVars, callVars, apprVars, lastAnswer, turnVars,
                   trackVars, sessVars, useVars, sendVars>>

\* one pass of the for loop of syncFile
SyncLine ==
    /\ syncPc = "loop"
    /\ lineIdx < Len(lines)
    /\ LET kind == lines[lineIdx + 1]
           pending == IF lastAssistantText # 0 THEN 1 ELSE 0
       IN  /\ lineIdx' = lineIdx + 1
           /\ timesProcessed' = [timesProcessed EXCEPT ![lineIdx + 1] = @ + 1]
           /\ IF kind = "user"
              THEN \* flushAssistant(), then the user message is saved
                   /\ synced' = synced + pending + 1
                   /\ lastAssistantText' = 0
              ELSE IF kind \in {"assistant1", "assistant2"}
              THEN IF textLength(kind) >= lastAssistantText
                   THEN /\ lastAssistantText' = textLength(kind)
                        /\ synced' = synced
                   ELSE \* the text got shorter: flushAssistant()
                        /\ lastAssistantText' = textLength(kind)
                        /\ synced' = synced + pending
              ELSE UNCHANGED <<lastAssistantText, synced>>
    /\ UNCHANGED <<transcript, modifiedSinceSync, syncState, syncPc, lines>>
    /\ UNCHANGED <<channel, remVars, queueVars, callVars, apprVars, lastAnswer, turnVars,
                   trackVars, sessVars, useVars, sendVars>>

\* the end of syncFile (the last flushAssistant, state[fileKey] = {lastLine, lastTimestamp})
\* and saveSyncState
SyncEnd ==
    /\ syncPc = "loop"
    /\ lineIdx = Len(lines)
    /\ synced' = synced + (IF lastAssistantText # 0 THEN 1 ELSE 0)
    /\ lastAssistantText' = 0
    /\ syncState' = Len(lines)
    /\ modifiedSinceSync' = FALSE
    /\ syncPc' = "idle"
    /\ UNCHANGED <<transcript, lines, lineIdx, timesProcessed>>
    /\ UNCHANGED <<channel, remVars, queueVars, callVars, apprVars, lastAnswer, turnVars,
                   trackVars, sessVars, useVars, sendVars>>

\* ------------------------------------------------------- the event reminder job

\* a minute passes between two runs of the reminder job
ClockTick ==
    /\ remPc = "idle"
    /\ clock < MaxClock
    /\ clock' = clock + 1
    /\ UNCHANGED <<storedReminders, remPc, remNow, eventReminders, remIdx, delivered,
                   checkinPc, checkinReminders>>
    /\ UNCHANGED <<channel, syncVars, queueVars, callVars, apprVars, lastAnswer, turnVars,
                   trackVars, sessVars, useVars, sendVars>>

\* the events getUpcomingEventsStructured(35) returns at the time t
upcoming(t) == {e \in DOMAIN EventStart : EventStart[e] > t /\ EventStart[e] <= t + LookAhead}

\* the pair is checked at the time t and its event is within the window of the pair
due(pair, t) ==
    LET window == REMINDER_WINDOWS[pair[2]]
        minutesUntil == EventStart[pair[1]] - t
    IN  /\ pair[1] \in upcoming(t)
        /\ minutesUntil >= window.threshold - window.tolerance
        /\ minutesUntil <= window.threshold + window.tolerance

\* a run of the reminder job up to its loops: loadState on the day of todayDate and the
\* events of the next 35 minutes; without events the state is saved and the run ends
RemindStart ==
    /\ remPc = "idle"
    /\ remNow' = clock
    /\ eventReminders' = storedReminders
    /\ remIdx' = 0
    /\ remPc' = IF upcoming(clock) = {} THEN "idle" ELSE "loop"
    /\ UNCHANGED <<clock, storedReminders, delivered, checkinPc, checkinReminders>>
    /\ UNCHANGED <<channel, syncVars, queueVars, callVars, apprVars, lastAnswer, turnVars,
                   trackVars, sessVars, useVars, sendVars>>

\* one pass of the inner for loop of the reminder job; sent is what sendTelegram returns
\* when it is called
RemindCheck(sent) ==
    /\ remPc = "loop"
    /\ remIdx < Len(Pairs)
    /\ remIdx' = remIdx + 1
    /\ LET pair == Pairs[remIdx + 1]
           key == stateKey(pair)
       IN  IF due(pair, remNow) /\ key \notin eventReminders
           THEN IF sent
                THEN /\ eventReminders' = eventReminders \cup {key}
                     /\ delivered' = [delivered EXCEPT
                                       ![key] = IF @ < MaxDelivered THEN @ + 1 ELSE @]
                ELSE UNCHANGED <<eventReminders, delivered>>
           ELSE /\ sent
                /\ UNCHANGED <<eventReminders, delivered>>
    /\ UNCHANGED <<clock, storedReminders, remPc, remNow, checkinPc, checkinReminders>>
    /\ UNCHANGED <<channel, syncVars, queueVars, callVars, apprVars, lastAnswer, turnVars,
                   trackVars, sessVars, useVars, sendVars>>

\* saveState(state) after the loops
RemindEnd ==
    /\ remPc = "loop"
    /\ remIdx = Len(Pairs)
    /\ storedReminders' = eventReminders
    /\ remPc' = "idle"
    /\ UNCHANGED <<clock, remNow, eventReminders, remIdx, delivered,
                   checkinPc, checkinReminders>>
    /\ UNCHANGED <<channel, syncVars, queueVars, callVars, apprVars, lastAnswer, turnVars,
                   trackVars, sessVars, useVars, sendVars>>

\* the check-in job, which keeps its fields in the same state file: loadState
CheckinLoad ==
    /\ checkinPc = "idle"
    /\ checkinPc' = "loaded"
    /\ checkinReminders' = storedReminders
    /\ UNCHANGED <<clock, storedReminders, remPc, remNow, eventReminders, remIdx, delivered>>
    /\ UNCHANGED <<channel, syncVars, queueVars, callVars, apprVars, lastAnswer, turnVars,
                   trackVars, sessVars, useVars, sendVars>>

\* the check-in job after its questions to the agent: saveState(state) writes the whole
\* state it has loaded
CheckinSave ==
    /\ checkinPc = "loaded"
    /\ checkinPc' = "idle"
    /\ storedReminders' = checkinReminders
    /\ UNCHANGED <<clock, remPc, remNow, eventReminders, remIdx, delivered,
                   checkinReminders>>
    /\ UNCHANGED <<channel, syncVars, queueVars, callVars, apprVars, lastAnswer, turnVars,
                   trackVars, sessVars, useVars, sendVars>>

\* ------------------------------------------------------- specifications

HandlerStep(r) ==
    \/ PreDone(r)
    \/ PreThrow(r)
    \/ \E k \in HandlerKinds : StreamEnd(r, k)
    \/ \E name \in ErrorNames, k \in HandlerKinds : StreamError(r, name, k)
    \/ \E k \in HandlerKinds : CatchDone(r, k)
    \/ TailDone(r)

GateStep ==
    \/ \E r \in Requests, tool \in ToolNames, risky \in BOOLEAN, id \in Ids : ToolCall(r, tool, risky, id)
    \/ \E t \in Calls : ReplySent(t)
    \/ \E t \in Calls : ReplyFail(t)
    \/ \E action \in Decisions, id \in Ids : Callback(action, id)
    \/ \E t \in Calls : TimerFire(t)
    \/ \E t \in Calls, yes \in BOOLEAN : TermAnswer(t, yes)

\* the two relays with everything they do
Next ==
    \/ \E r \in Requests : Enqueue(r)
    \/ \E r \in Requests : TermLine(r)
    \/ \E r \in Requests : HandlerStep(r)
    \/ Stop
    \/ GateStep
    \/ \E text \in Texts, uuid \in Uuids : TextEvent(text, uuid)
    \/ Wait
    \/ \E result \in BOOLEAN : ResultEvent(result)
    \/ \E n \in AddAmounts : AddTokens(n)
    \/ \E n \in UsageTokens : SetTokens(n)
    \/ Reset
    \/ CheckWarnings
    \/ \E sid \in SessionIds : LoadSession(sid)
    \/ \E r \in Requests, m \in Messages : SessionMessage(r, m)
    \/ NewSession
    \/ \E text \in Texts : FlushRejected(text)
    \/ \E d \in Delays : Tick(d)
    \/ IsRateLimited
    \/ \E userId \in UserIds, update \in Updates : Use(userId, update)
    \/ \E text \in Responses : SendResponse(text)
    \/ SendRest
    \/ \E kind \in LineKinds : AppendLine(kind)
    \/ SyncStart
    \/ SyncLine
    \/ SyncEnd
    \/ ClockTick
    \/ RemindStart
    \/ \E sent \in BOOLEAN : RemindCheck(sent)
    \/ RemindEnd
    \/ CheckinLoad
    \/ CheckinSave

Spec == Init /\ [][Next]_vars

\* Every handler eventually returns, every prompt is eventually delivered or fails,
\* and an armed timer eventually fires unless it is cleared.  Nothing forces the
\* user to send requests, to stop a run or to decide an approval.
Fairness ==
    /\ \A r \in Requests : WF_vars(HandlerStep(r))
    /\ \A t \in Calls : WF_vars(ReplySent(t) \/ ReplyFail(t))
    /\ \A t \in Calls : WF_vars(TimerFire(t))

\* The message queue of the Telegram relay: runs whose backend asks for no permission.
QueueInit == Init /\ channel = "telegram"

QueueNext ==
    \/ \E r \in Requests : Enqueue(r)
    \/ \E r \in Requests : HandlerStep(r)
    \/ Stop

QueueSpec == QueueInit /\ [][QueueNext]_vars

QueueFairSpec == QueueSpec /\ \A r \in Requests : WF_vars(HandlerStep(r))

\* The approval gate of both relays, with at most MaxRuns runs.
GateNext ==
    \/ \E r \in 1..MaxRuns : Enqueue(r)
    \/ \E r \in 1..MaxRuns : TermLine(r)
    \/ \E r \in Requests : HandlerStep(r)
    \/ Stop
    \/ GateStep

GateSpec == Init /\ [][GateNext]_vars

\* The approval gate during and after a single run, under fairness.  The steps that
\* create and resolve approvals read the runs only through pc[r] = "stream", r \notin aborted
\* and currentCtx, so further runs add no behaviour of a single approval.
GateRunNext ==
    \/ Enqueue(1)
    \/ TermLine(1)
    \/ \E r \in Requests : HandlerStep(r)
    \/ Stop
    \/ GateStep

GateFairSpec == Init /\ [][GateRunNext]_vars /\ Fairness

\* The stream loop of one run of either relay up to its result message: the turn segmenter,
\* the flush scheduler of the Telegram relay and the printing of the terminal relay.
FlushNext ==
    \/ Enqueue(1)
    \/ TermLine(1)
    \/ PreDone(1)
    \/ \E text \in Texts, uuid \in Uuids : TextEvent(text, uuid)
    \/ Wait
    \/ \E result \in BOOLEAN : ResultEvent(result)

FlushSpec == Init /\ [][FlushNext]_vars

\* The stream loop of one run of the Telegram relay, which never reads msg.uuid.
TelegramFlushNext ==
    \/ Enqueue(1)
    \/ PreDone(1)
    \/ \E text \in Texts : TextEvent(text, "")
    \/ Wait
    \/ \E result \in BOOLEAN : ResultEvent(result)

TelegramFlushSpec == QueueInit /\ [][TelegramFlushNext]_vars

\* The stream loop of one run of the Telegram relay whose deliveries can fail.
DeliveryNext ==
    \/ TelegramFlushNext
    \/ \E text \in Texts : FlushRejected(text)
    \/ CatchDone(1, "plain")

DeliverySpec == QueueInit /\ [][DeliveryNext]_vars

\* The rate limiter of the Telegram relay under every sequence of updates and delays.
RateNext ==
    \/ \E d \in Delays : Tick(d)
    \/ IsRateLimited

RateSpec == QueueInit /\ [][RateNext]_vars

\* The Telegram relay behind its middleware: updates of any sender, one run and its
\* approvals.
AuthNext ==
    \/ \E userId \in UserIds, update \in Updates : Use(userId, update)
    \/ \E r \in Requests : HandlerStep(r)
    \/ \E r \in Requests, tool \in ToolNames, risky \in BOOLEAN, id \in Ids : ToolCall(r, tool, risky, id)
    \/ \E t \in Calls : ReplySent(t)
    \/ \E t \in Calls : ReplyFail(t)
    \/ \E t \in Calls : TimerFire(t)

AuthSpec == QueueInit /\ [][AuthNext]_vars

\* the texts and the messages of the run that asks for an approval: a text that triggers
\* a flush and one that does not, a tool_use message and an assistant message with usage
ApprovalTexts == {Word \o <<NL, NL>> \o Word, Word}
ApprovalMessages ==
    {Message("tool_use", "", NoSession, "", FALSE, 0, 0),
     Message("assistant", "", NoSession, "", TRUE, 100000, 0)}

\* One run of the Telegram relay whose backend asks once for the permission to run a
\* dangerous Bash command while it streams.
ApprovalStreamNext ==
    \/ Enqueue(1)
    \/ PreDone(1)
    \/ \E id \in Ids : nCalls = 0 /\ ToolCall(1, "Bash", TRUE, id)
    \/ \E t \in Calls : ReplySent(t)
    \/ \E action \in Decisions, id \in Ids : Callback(action, id)
    \/ \E t \in Calls : TimerFire(t)
    \/ \E text \in ApprovalTexts : TextEvent(text, "")
    \/ \E m \in ApprovalMessages : SessionMessage(1, m)

ApprovalStreamSpec == QueueInit /\ [][ApprovalStreamNext]_vars

\* The transcript sync job: runs one after the other over a file that grows.
SyncNext ==
    \/ \E kind \in LineKinds : AppendLine(kind)
    \/ SyncStart
    \/ SyncLine
    \/ SyncEnd

SyncSpec == QueueInit /\ [][SyncNext]_vars

\* The event reminder job: runs one after the other on one day, and the check-in job that
\* shares its state file.
RemindNext ==
    \/ ClockTick
    \/ RemindStart
    \/ \E sent \in BOOLEAN : RemindCheck(sent)
    \/ RemindEnd
    \/ CheckinLoad
    \/ CheckinSave

RemindSpec == QueueInit /\ [][RemindNext]_vars

\* sendResponse of the Telegram relay for every text of Responses.
SendNext ==
    \/ \E text \in Responses : SendResponse(text)
    \/ SendRest

SendSpec == QueueInit /\ [][SendNext]_vars

\* The ContextTracker under every sequence of calls of its methods.
TrackerNext ==
    \/ \E n \in AddAmounts : AddTokens(n)
    \/ \E n \in UsageTokens : SetTokens(n)
    \/ Reset
    \/ CheckWarnings

TrackerSpec == Init /\ [][TrackerNext]_vars

\* The session of the Telegram relay: the session id and the tracker under the runs,
\* the messages of their streams and /new.
SessionNext ==
    \/ \E sid \in SessionIds : LoadSession(sid)
    \/ \E r \in 1..MaxSessionRuns : Enqueue(r)
    \/ \E r \in Requests : PreDone(r)
    \/ \E r \in Requests, m \in Messages : SessionMessage(r, m)
    \/ \E r \in Requests : StreamEnd(r, "plain")
    \/ Stop
    \/ NewSession

SessionSpec == QueueInit /\ [][SessionNext]_vars

TypeOK ==
    /\ pc \in [Requests -> {"new", "queued", "pre", "stream", "catch", "tail", "done"}]
    /\ abortController \in 0..MaxReq
    /\ pendingApprovals \in [Ids -> 0..MaxCalls]
    /\ currentTurnText \in Texts
    /\ currentTurnSent \in Nat
    /\ emitKind \in {"none", "triggered", "final", "result", "print"}
    /\ tokens \in Nat
    /\ sessionId \in SessionIds \cup {NoSession}
    /\ warnings \in [pct10 : BOOLEAN, pct5 : BOOLEAN]

\* ------------------------------------------------------------ the queue claims

\* C1: single-flight - in every reachable state at most one queue handler is executing.
SingleFlight == Cardinality({r \in Requests : Executing(r)}) <= 1

\* C2: FIFO - a later arrival never starts (or completes) while an earlier request is
\* still waiting in the queue, so handlers start and complete in arrival order.
FifoOrder ==
    \A r1, r2 \in Requests :
        (r1 < r2 /\ pc[r1] = "queued") => pc[r2] \in {"new", "queued"}

\* C3: no request is lost - a request that was queued behind a running handler is
\* eventually executed to the end, and no handler is ever started twice.
NoRequestLost ==
    /\ [](\A r \in Requests : execs[r] <= 1)
    /\ \A r \in Requests : (pc[r] = "queued") ~> (pc[r] = "done" /\ execs[r] = 1)

QueuedRequestRan == \E r \in Requests : notified[r] = 1 /\ pc[r] = "done" /\ execs[r] = 1

\* C4: a handler that throws does not stall the queue - when it ends, the head of the
\* queue (if any) starts executing and the rest of the queue is kept in order; with an
\* empty queue the busy flag is cleared.
FailureDrainsQueue ==
    [][\A r \in Requests :
          PreThrow(r) =>
             IF messageQueue = <<>>
             THEN ~processing' /\ messageQueue' = <<>>
             ELSE /\ pc'[Head(messageQueue)] = "pre"
                  /\ execs'[Head(messageQueue)] = execs[Head(messageQueue)] + 1
                  /\ messageQueue' = Tail(messageQueue)
                  /\ \A q \in Requests \ {r, Head(messageQueue)} : pc'[q] = pc[q]]_vars

NextRanAfterFailure ==
    /\ arrived = 2 /\ aborted = {}
    /\ failed[1] /\ pc[1] = "done"
    /\ notified[2] = 1 /\ pc[2] = "pre"

\* C5: enqueue while a handler is executing appends the entry at the tail, notifies the
\* caller once and does not start the handler; enqueue while idle starts the handler at
\* once without appending or notifying.
EnqueueDefersWhileBusy ==
    [][\A r \in Requests :
          Enqueue(r) =>
             IF \E q \in Requests : Executing(q)
             THEN /\ messageQueue' = Append(messageQueue, r)
                  /\ notified'[r] = 1
                  /\ pc'[r] = "queued"
             ELSE /\ messageQueue' = messageQueue
                  /\ notified'[r] = 0
                  /\ pc'[r] = "pre"]_vars

\* C11: a stop releases the busy flag of the queue, and when entries are waiting after a
\* stop, the head entry is started once, with no further request arriving (no fairness is
\* assumed for arrivals).
AbortReleasesQueue ==
    /\ [][Stop => ~processing']_vars
    /\ \A r \in Requests :
          (aborted # {} /\ ~processing /\ messageQueue # <<>> /\ Head(messageQueue) = r)
             ~> (execs[r] = 1 /\ pc[r] # "queued")

HeadStartedAfterAbort ==
    /\ arrived = 2
    /\ aborted = {1} /\ pc[1] = "done"
    /\ notified[2] = 1 /\ execs[2] = 1 /\ pc[2] = "pre"

\* ------------------------------------------------------------ the approval gate claims

IdResolved(id) == \A t \in Calls : tcId[t] = id => tcState[t] # "pending"

FailClosedGate ==
    /\ [](\A t \in Calls :
            /\ (tcFlagged[t] /\ tcState[t] = "allow") => (tcVia[t] \in {"button", "answer"} /\ tcResolves[t] >= 1)
            /\ tcVia[t] \in {"timeout", "noctx"} => tcState[t] = "deny")
    /\ [][\A t \in Calls :
            (tcState[t] \in {"pending", "asking"} /\ tcState'[t] \in {"allow", "deny"}) =>
               /\ tcResolves'[t] = tcResolves[t] + 1
               /\ \A u \in Calls \ {t} : tcState'[u] = tcState[u] /\ tcResolves'[u] = tcResolves[u]]_vars

OneApprovedOtherWaiting ==
    \E t, u \in Calls :
        /\ tcFlagged[t] /\ tcState[t] = "allow"
        /\ tcFlagged[u] /\ tcState[u] \in {"pending", "asking"}

\* C10: a stop leaves the pending approvals as they are, and a pending approval leaves
\* the pending state only by a decision for its id or by its own timer.
AbortKeepsApprovals ==
    /\ [][Stop => UNCHANGED apprVars]_vars
    /\ [][\A t \in Calls :
            (tcState[t] = "pending" /\ tcState'[t] # "pending") =>
               \/ TimerFire(t)
               \/ \E action \in Decisions : Callback(action, tcId[t])]_vars

PendingAfterAbort ==
    \E t \in Calls :
        /\ tcOwner[t] \in aborted
        /\ tcState[t] = "pending"
        /\ pendingApprovals[tcId[t]] = t

\* ------------------------------------------- the segmenter and flush scheduler claims

\* the turn text is unchanged or replaced within the turn: no turn was archived by the step
SameTurn == Len(allResponses') = Len(allResponses)

\* C12: in every reachable state 0 <= sentOffset <= len(currentTurnText), and a step that
\* stays within one turn never decreases sentOffset.
SentOffsetInBounds ==
    /\ [](0 <= currentTurnSent /\ currentTurnSent <= Len(currentTurnText))
    /\ [][SameTurn => currentTurnSent' >= currentTurnSent]_vars

\* offset p of text t is the start of a paragraph break, follows a sentence end, or is a space
AtParagraphBreak(t, p) == p + 2 <= Len(t) /\ t[p + 1] = NL /\ t[p + 2] = NL
AtSentenceEnd(t, p) == p >= 1 /\ p + 1 <= Len(t) /\ t[p] \in {".", "?", "!"} /\ t[p + 1] \in {" ", NL}
AtSpace(t, p) == p + 1 <= Len(t) /\ t[p + 1] = " "

\* C13: the chunk of a triggered flush ends at a paragraph break, a sentence end or a space
\* of the turn text, never inside a word.
TriggeredFlushEndsAtBoundary ==
    [][\A text \in Texts :
          (TextEvent(text, "") /\ text # <<>> /\ emitKind' = "triggered") =>
             \/ AtParagraphBreak(text, currentTurnSent')
             \/ AtSentenceEnd(text, currentTurnSent')
             \/ AtSpace(text, currentTurnSent')]_vars

\* C14: when the unsent text has a paragraph break and more than 80 characters, the flush
\* cuts at the last paragraph break of the unsent text, wherever that break is, and emits
\* nothing after it.
ParagraphFlushCutsAtLastBreak ==
    [][\A text \in Texts :
          (TextEvent(text, "") /\ text # <<>>) =>
             LET sent0 == IF SameTurn THEN currentTurnSent ELSE 0
                 unsent == slice(text, sent0)
                 idx == lastIndexOf(unsent, <<NL, NL>>)
             IN  (idx >= 0 /\ Len(unsent) > ParagraphMin) =>
                    IF trim(sliceTo(unsent, idx)) = <<>>
                    THEN emitKind' = "none" /\ currentTurnSent' = sent0
                    ELSE /\ emitKind' = "triggered"
                         /\ currentTurnSent' = sent0 + idx
                         /\ lastChunk' = trim(sliceTo(unsent, idx))]_vars

\* C15: a chunk is the slice of the turn text from the current sentOffset to the cut (with
\* the white space around it trimmed), sentOffset advances by the cut length, and a chunk
\* never starts before the end of what was emitted of the turn, the final chunk included.
ChunksFollowOffset ==
    /\ [][\A text \in Texts :
            (TextEvent(text, "") /\ text # <<>> /\ emitKind' = "triggered") =>
               LET sent0 == IF SameTurn THEN currentTurnSent ELSE 0
                   hwm0 == IF SameTurn THEN hwm ELSE 0
               IN  /\ emitFrom' = sent0
                   /\ emitFrom' >= hwm0
                   /\ currentTurnSent' > sent0
                   /\ currentTurnSent' <= Len(text)
                   /\ lastChunk' = trim(SubSeq(text, sent0 + 1, currentTurnSent'))
                   /\ hwm' = currentTurnSent']_vars
    /\ [][\A result \in BOOLEAN :
            (ResultEvent(result) /\ emitKind' = "final") =>
               /\ emitFrom' = currentTurnSent
               /\ emitFrom' >= hwm
               /\ lastChunk' = trim(slice(currentTurnText, currentTurnSent))]_vars

SecondChunkOfTurn ==
    /\ emitKind = "triggered"
    /\ emitFrom > 0
    /\ allResponses = <<>>

\* C16: the result message sends what is left of the current turn after sentOffset
\* whatever its length and whether or not a flush trigger holds, so that nothing of the
\* turn but white space stays unsent.
ResultFlushesTail ==
    [][\A result \in BOOLEAN :
          ResultEvent(result) =>
             LET tail == slice(currentTurnText, currentTurnSent)
             IN  IF trim(tail) # <<>>
                 THEN emitKind' = "final" /\ lastChunk' = trim(tail) /\ hwm' = Len(currentTurnText)
                 ELSE emitKind' # "final"]_vars

ShortTailFlushed ==
    /\ gotResult
    /\ emitKind = "final"
    /\ Len(lastChunk) <= StaleMin
    /\ sinceFlush <= StaleMs

\* C17: a text strictly shorter than the current turn text archives the current turn text
\* once, becomes the current turn and restarts sentOffset at 0; any other text replaces
\* the current turn text and archives nothing.
ShrinkStartsNewTurn ==
    [][\A text \in Texts :
          (TextEvent(text, "") /\ text # <<>>) =>
             IF Len(text) < Len(currentTurnText)
             THEN /\ allResponses' = Append(allResponses, currentTurnText)
                  /\ currentTurnText' = text
                  /\ emitFrom' = 0
                  /\ currentTurnSent' = IF emitKind' = "triggered" THEN hwm' ELSE 0
             ELSE /\ allResponses' = allResponses
                  /\ currentTurnText' = text
                  /\ emitFrom' = currentTurnSent]_vars

NewTurnAfterShrink ==
    /\ ~gotResult
    /\ Len(allResponses) = 1
    /\ Len(currentTurnText) < Len(allResponses[1])
    /\ currentTurnText # <<>>

\* C18: for a message with a uuid that follows a message with a uuid, a turn boundary is
\* detected exactly when the uuid differs, whatever the lengths; for a message without
\* uuid the boundary is detected exactly when the text got shorter.
IdentifierDecidesBoundary ==
    [][\A text \in Texts, uuid \in Uuids :
          (TextEvent(text, uuid) /\ text # <<>>) =>
             /\ (uuid # "" /\ prevUuid # "") => (~SameTurn <=> uuid # prevUuid)
             /\ uuid = "" => (~SameTurn <=> Len(text) < Len(currentTurnText))]_vars

\* ------------------------------------------------------------ the tracker claims

\* C19: a step that is not a reset never decreases tokens, nor usedPct().
TokensNeverDecrease ==
    [][Reset \/ (tokens' >= tokens /\ usedPct(tokens') >= usedPct(tokens))]_vars

\* C20: between two resets checkWarnings returns each of the two warnings at most once.
WarningsAtMostOnce == returned.pct10 <= 1 /\ returned.pct5 <= 1

BothWarnedThenSilent ==
    /\ returned.pct10 = 1
    /\ returned.pct5 = 1
    /\ lastWarning = "null"
    /\ remainingPct(tokens) <= 5

\* C21: a check made with 10% or less but more than 5% remaining returns the 10% warning
\* if it was not returned yet; a later check made with 5% or less remaining returns the 5%
\* warning; from then on two warnings have been returned in total and every further check
\* returns none.
TwoWarningsThenSilence ==
    /\ [][CheckWarnings =>
            /\ (remainingPct(tokens) <= 10 /\ remainingPct(tokens) > 5 /\ ~warnings.pct10)
                  => (lastWarning' = "pct10" /\ returned'.pct10 = 1)
            /\ (remainingPct(tokens) <= 5 /\ warnings.pct10 /\ ~warnings.pct5)
                  => (lastWarning' = "pct5" /\ returned'.pct5 = 1)
            /\ (warnings.pct10 /\ warnings.pct5)
                  => (lastWarning' = "null" /\ returned' = returned)]_vars
    /\ []((warnings.pct10 /\ warnings.pct5) => returned.pct10 + returned.pct5 = 2)

TenThenFivePercentWarned ==
    /\ returned.pct10 = 1
    /\ returned.pct5 = 1
    /\ lastWarning = "pct5"

\* C22: usedPct() is an integer nearest to tokens / 200000 * 100, capped at 100;
\* remainingPct() is 100 - usedPct(); both lie in 0..100.
UsedPctIsRoundedShare ==
    LET u == usedPct(tokens)
        diff == 200 * tokens - 2 * CONTEXT_WINDOW * u
    IN  /\ u \in 0..100
        /\ u < 100 => (diff <= CONTEXT_WINDOW /\ -diff <= CONTEXT_WINDOW)
        /\ u = 100 => 200 * tokens >= 199 * CONTEXT_WINDOW
        /\ remainingPct(tokens) = 100 - u
        /\ remainingPct(tokens) \in 0..100

TokensAboveWindow ==
    /\ tokens > CONTEXT_WINDOW + 2000
    /\ usedPct(tokens) = 100
    /\ remainingPct(tokens) = 0

\* --------------------------------------------------------- the session claims

\* the run r is the one the busy flag stands for
HoldsSlot(r) == processing /\ Executing(r) /\ r \notin aborted

\* C23: the reset performed on a compaction notice and on /new sets the token count to
\* the baseline of 18,000 and clears both warning flags; a result handled while both
\* flags are clear and 10% or less remains returns a warning, so each warning can be
\* returned again after the reset.
ResetRestoresBaseline ==
    /\ [][(NewSession \/ (nMsgs' # nMsgs /\ \E r \in Requests, m \in Messages :
                                                    isCompaction(m) /\ SessionMessage(r, m)))
            => /\ tokens' = SYSTEM_PROMPT_ESTIMATE
               /\ warnings' = [pct10 |-> FALSE, pct5 |-> FALSE]
               /\ returned' = [pct10 |-> 0, pct5 |-> 0]]_vars
    /\ [][(nMsgs' # nMsgs /\ ~warnings.pct10 /\ ~warnings.pct5 /\ remainingPct(tokens') <= 10) =>
            \A r \in Requests, m \in Messages :
               (m.type = "result" /\ SessionMessage(r, m))
               => lastWarning' \in {"pct10", "pct5"} /\ returned'.pct10 + returned'.pct5 = 1]_vars

WarnedAgainAfterReset ==
    \E w \in {"pct10", "pct5"} : warnedBefore[w] /\ returned[w] = 1 /\ lastWarning = w

\* C26: a backend message that matches no known variant changes nothing of the run (turn
\* text, sent offset, token count, warning flags, session id), makes the relay send
\* nothing, and leaves the run in its stream loop, ready for the next message.
UnknownMessageSkipped ==
    [][nMsgs' # nMsgs =>
          \A r \in Requests, m \in Messages :
             (~KnownVariant(m) /\ SessionMessage(r, m))
             => /\ UNCHANGED <<turnVars, trackVars, sessionId, sendVars, queueVars>>
                /\ pc'[r] = "stream"]_vars

UnknownMessageTaken ==
    /\ skipped
    /\ nMsgs >= 2
    /\ sessionId \in SessionIds
    /\ \E r \in Requests : pc[r] = "stream" /\ r \notin aborted

\* C27: the session state (token count, warning flags, session id) changes only in a
\* step of the run that holds the busy slot; no command outside the queue and no run
\* that has lost the slot writes it.
SessionWrittenByHolder ==
    [][(sessionId' # sessionId \/ tokens' # tokens \/ warnings' # warnings)
          => \/ \E sid \in SessionIds : LoadSession(sid)
             \/ \E r \in Requests :
                   /\ HoldsSlot(r)
                   /\ PreDone(r) \/ \E m \in Messages : SessionMessage(r, m)]_vars

\* C24: when the stream of a run fails and the run was not aborted by the user, the run
\* goes to send its one failure notice; a notice is sent only by a run leaving its stream,
\* and a request is started at most once, so there is one notice per failure; the run
\* then ends, and when it ends the busy flag is cleared or the slot passes to the head
\* of the queue; the ended request is never started again.
StreamFailureNotifiedOnce ==
    /\ [][\A r \in Requests, k \in HandlerKinds :
            (r \notin aborted /\ StreamError(r, "Error", k)) => pc'[r] = "catch"]_vars
    /\ [][\A r \in Requests :
            (pc[r] # "catch" /\ pc'[r] = "catch") => pc[r] = "stream" /\ execs[r] = 1]_vars
    /\ [](\A r \in Requests : execs[r] <= 1)
    /\ [][\A r \in Requests :
            (pc[r] = "catch" /\ pc'[r] # "catch") => pc'[r] \in {"tail", "done"}]_vars
    /\ [][\A r \in Requests :
            (pc[r] \in {"catch", "tail"} /\ pc'[r] = "done")
            => IF messageQueue = <<>>
               THEN ~processing' /\ messageQueue' = <<>>
               ELSE pc'[Head(messageQueue)] = "pre" /\ messageQueue' = Tail(messageQueue)]_vars
    /\ [][\A r \in Requests : pc[r] = "done" => pc'[r] = "done" /\ execs'[r] = execs[r]]_vars
    /\ \A r \in Requests : (pc[r] = "catch") ~> (pc[r] = "done")

FailureNoticeOfUnabortedRun ==
    \E r \in Requests :
        /\ pc[r] = "catch"
        /\ r \notin aborted
        /\ execs[r] = 1
        /\ processing
        /\ messageQueue # <<>>

\* C25: when the delivery of a chunk fails, the failure is swallowed: the run stays in
\* its stream loop to take the later messages.
DeliveryFailureSwallowed ==
    [][\A text \in Texts :
          FlushRejected(text) => pc'[1] = "stream"]_vars

\* ----------------------------------------------------- the middleware claims

\* the number of updates admitted from time t to time t + RATE_LIMIT_WINDOW
AdmittedFrom(t) ==
    Cardinality({i \in 1..Len(admitted) : t <= admitted[i] /\ admitted[i] <= t + RATE_LIMIT_WINDOW})

\* C28: no 60-second window holds more than 10 admitted updates, and an update that is
\* rejected adds no entry to the recorded timestamps, so it does not move the time at
\* which the next update is admitted.
AtMostTenPerWindow ==
    /\ [](\A i \in 1..Len(admitted) : AdmittedFrom(admitted[i]) <= RATE_LIMIT_MAX)
    /\ [][(IsRateLimited /\ limited')
            => /\ admitted' = admitted
               /\ rateLimitTimestamps' = shiftOld(rateLimitTimestamps, now)
               /\ Len(rateLimitTimestamps') = RATE_LIMIT_MAX]_vars
    /\ [][(IsRateLimited /\ ~limited')
            => Len(shiftOld(rateLimitTimestamps, now)) < RATE_LIMIT_MAX]_vars

AdmittedAgainAfterRejection ==
    /\ Len(admitted) > RATE_LIMIT_MAX
    /\ admitted[RATE_LIMIT_MAX] = admitted[1]
    /\ admitted[RATE_LIMIT_MAX + 1] = admitted[1] + RATE_LIMIT_WINDOW + 1
    /\ limited

\* C29: an update whose sender is not the configured user changes nothing of the queue,
\* of the runs and of the approvals: it enqueues no request, aborts no run, and neither
\* resolves nor removes a pending approval, whatever kind of update it is.
StrangerChangesNothing ==
    [][\A userId \in UserIds \ {ALLOWED_USER_ID}, update \in Updates :
          Use(userId, update)
          => UNCHANGED <<queueVars, callVars, apprVars, lastAnswer, sessVars, trackVars>>]_vars

StrangerTurnedAway ==
    /\ privateReplies > 0
    /\ \E r \in Requests : pc[r] = "stream" /\ processing /\ abortController = r
    /\ \E i \in Ids : pendingApprovals[i] # 0

\* C30: every text sendResponse hands to ctx.reply has at most 4,000 characters, and the
\* texts are parts of the response taken from left to right: each one stands in the
\* response at its place, after the end of the one before.
PiecesFitAndFollow ==
    /\ Len(pieceAt) = Len(pieces)
    /\ \A i \in 1..Len(pieces) :
          /\ Len(pieces[i]) <= MAX_LENGTH
          /\ pieceAt[i] + Len(pieces[i]) <= Len(response)
          /\ pieces[i] = SubSeq(response, pieceAt[i] + 1, pieceAt[i] + Len(pieces[i]))
          /\ i > 1 => pieceAt[i] >= pieceAt[i - 1] + Len(pieces[i - 1])

LongResponseCutInThree ==
    /\ Len(response) > 2 * MAX_LENGTH
    /\ remainingToSend = <<>>
    /\ Len(pieces) = 3
    /\ Len(pieces[1]) = MAX_LENGTH

\* ------------------------------------------------- the claims about a waiting approval

\* the texts of the run that trigger no flush when they arrive as the first of a turn
QuietTexts == {text \in ApprovalTexts : ~hasParagraphBreak(text) /\ ~isLarge(text)}

\* C31: while an approval of the run is unresolved, the stream loop still takes the next
\* assistant message and every other backend message (the text is segmented and flushed,
\* the tokens are counted); these steps leave the approval as it is, and the steps that
\* resolve the approval leave the turn and the tracker as they are.  The loop does not
\* read the text before it takes the message, so the first conjunct is evaluated for
\* the texts without a trigger; the flush of a text with a trigger is the witness.
StreamRunsWhileApprovalPends ==
    /\ [](Waiting /\ pc[1] = "stream" /\ ~gotResult
            => /\ nEvents < MaxEvents => \A text \in QuietTexts : ENABLED TextEvent(text, "")
               /\ nMsgs < MaxMsgs => \A m \in ApprovalMessages : ENABLED SessionMessage(1, m))
    /\ [][(Waiting /\ (turnVars' # turnVars \/ trackVars' # trackVars))
            => apprVars' = apprVars /\ callVars' = callVars]_vars
    /\ [][apprVars' # apprVars => turnVars' = turnVars /\ trackVars' = trackVars]_vars

FlushedWhileApprovalPends ==
    /\ Waiting
    /\ waitingAtEvent
    /\ emitKind = "triggered"
    /\ nMsgs > 0

\* ------------------------------------------------- further flush scheduler claims

\* the unsent part of the turn when the text arrives: a shorter text starts a new turn
UnsentOf(text) == slice(text, IF Len(text) < Len(currentTurnText) THEN 0 ELSE currentTurnSent)

\* the three triggers, for the unsent text and the time since the last flush in ms
TriggerHolds(unsent, since) ==
    \/ includes(unsent, <<NL, NL>>) /\ Len(unsent) > 80
    \/ Len(unsent) > 400
    \/ Len(unsent) > 40 /\ since > 3000

\* C32: a text event of the Telegram relay emits a chunk only when a trigger holds (the
\* unsent text has a paragraph break and more than 80 characters, or more than 400
\* characters, or more than 40 characters with more than 3 seconds since the last flush),
\* and when one holds it emits unless the chunk is empty after trimming; when none holds
\* nothing is emitted, sentOffset stays where it was in the turn and the time of the
\* last flush is kept.
FlushIffTriggered ==
    [][\A text \in Texts :
          (TextEvent(text, "") /\ text # <<>>) =>
             LET unsent == UnsentOf(text)
             IN  IF TriggerHolds(unsent, sinceFlush)
                 THEN \/ emitKind' = "triggered" /\ sinceFlush' = 0
                      \/ trim(sliceTo(unsent, flushEnd(unsent))) = <<>> /\ emitKind' = "none"
                 ELSE /\ emitKind' = "none"
                      /\ lastChunk' = <<>>
                      /\ currentTurnSent' = Len(text) - Len(unsent)
                      /\ sinceFlush' = sinceFlush]_vars

\* a text of at most 400 characters without a paragraph break was flushed: only the
\* three seconds can have triggered it
StaleTextFlushed ==
    /\ emitKind = "triggered"
    /\ Len(currentTurnText) <= 400
    /\ ~includes(currentTurnText, <<NL, NL>>)

\* the offsets of unsent at which a sentence ends: ". ", ".\n", "? " or "! " starts there
SentenceEnds(unsent) ==
    {i \in 0..(Len(unsent) - 2) :
        \/ unsent[i + 1] \in {".", "?", "!"} /\ unsent[i + 2] = " "
        \/ unsent[i + 1] = "." /\ unsent[i + 2] = NL}

\* the offsets of unsent that hold a space
Spaces(unsent) == {i \in 0..(Len(unsent) - 1) : unsent[i + 1] = " "}

\* the members of S that lie past 30% of n
Past30(S, n) == {i \in S : 10 * i > 3 * n}

\* C33: a flush that fires without the paragraph-break trigger cuts just after the last
\* sentence-ending punctuation if that lies past 30% of the unsent length, otherwise at
\* the last space if that lies past 30% of the unsent length, otherwise at the end of
\* the unsent text.
CutPointByPriority ==
    [][\A text \in Texts :
          (TextEvent(text, "") /\ text # <<>> /\ emitKind' = "triggered") =>
             LET unsent == UnsentOf(text)
                 n == Len(unsent)
                 cut == currentTurnSent' - (Len(text) - n)
                 ends == SentenceEnds(unsent)
                 spaces == Spaces(unsent)
             IN  ~(includes(unsent, <<NL, NL>>) /\ n > 80) =>
                    IF ends # {} /\ Max(ends) \in Past30(ends, n) THEN cut = Max(ends) + 1
                    ELSE IF spaces # {} /\ Max(spaces) \in Past30(spaces, n) THEN cut = Max(spaces)
                    ELSE cut = n]_vars

\* a flush without a paragraph break cut the turn after a sentence end and left a rest
CutAfterSentence ==
    /\ emitKind = "triggered"
    /\ ~includes(currentTurnText, <<NL, NL>>)
    /\ lastChunk[Len(lastChunk)] = "."
    /\ currentTurnSent < Len(currentTurnText)

\* C34: no text is lost in delivery by the Telegram relay: when a turn boundary archives
\* a turn, nothing but white space of that turn is unsent, and the text of a new turn
\* (a message with another uuid than the one before it) is emitted from its start,
\* also when it is not shorter than the text of the turn before; the result message
\* sends the rest of the last turn.
NoTextLost ==
    /\ [][\A text \in Texts, uuid \in Uuids :
            (channel = "telegram" /\ TextEvent(text, uuid) /\ text # <<>>) =>
               /\ ~SameTurn => trim(slice(currentTurnText, currentTurnSent)) = <<>>
               /\ (uuid # "" /\ prevUuid # "" /\ uuid # prevUuid) => emitFrom' = 0]_vars
    /\ [][\A result \in BOOLEAN :
            (channel = "telegram" /\ ResultEvent(result)) =>
               \/ trim(slice(currentTurnText, currentTurnSent)) = <<>>
               \/ lastChunk' = trim(slice(currentTurnText, currentTurnSent))]_vars

\* ------------------------------------------------- further tracker claims

\* C35: between two resets no check returns the 10% warning once a check has returned
\* the 5% warning.
NoTenPercentAfterFivePercent ==
    [][(CheckWarnings /\ returned.pct5 > 0) => lastWarning' # "pct10"]_vars

\* ------------------------------------------------- further queue claims

\* C36: while callAgent of a request is running and has not been aborted, the shared
\* abortController is the one that run created, so that a stop command aborts it.
AbortControllerRefersToRun ==
    \A r \in Requests :
        (pc[r] \in {"pre", "stream", "catch"} /\ r \notin aborted) => abortController = r

\* C37: when the stream of a run that the user has aborted raises an error, whatever its
\* name, the run does not go on to send the failure notice.
AbortedRunGetsNoFailureNotice ==
    [][\A r \in Requests, name \in ErrorNames, k \in HandlerKinds :
          (r \in aborted /\ StreamError(r, name, k)) => pc'[r] # "catch"]_vars

\* ------------------------------------------------- further approval claims

\* C38: the map of pending approvals holds exactly the unresolved approvals: every call
\* whose prompt was delivered and which is not resolved is the entry under its own id,
\* and every entry is such a call.
PendingMapHoldsUnresolved ==
    /\ \A t \in Calls : tcState[t] = "pending" => pendingApprovals[tcId[t]] = t
    /\ \A i \in Ids : pendingApprovals[i] # 0 =>
           tcState[pendingApprovals[i]] = "pending" /\ tcId[pendingApprovals[i]] = i

\* ------------------------------------------------- the claims about the jobs

RemindedOncePerWindow ==
    /\ [](\A key \in ReminderKeys : delivered[key] <= 1)
    /\ [](\A key \in storedReminders \cup eventReminders : delivered[key] = 1)
    /\ [][\A sent \in BOOLEAN :
            (RemindCheck(sent) /\ due(Pairs[remIdx + 1], remNow)
               /\ stateKey(Pairs[remIdx + 1]) \notin eventReminders)
            => LET key == stateKey(Pairs[remIdx + 1])
               IN  IF sent
                   THEN delivered'[key] = delivered[key] + 1 /\ key \in eventReminders'
                   ELSE delivered' = delivered /\ key \notin eventReminders']_vars

====
